---- MODULE Spec2Model ----
(***************************************************************************)
(* Entity resolution engine of backend/graph/entity_resolution.py          *)
(* (EntityResolutionService) together with the parts of                    *)
(* backend/graph/entity_extractor.py it relies on (ExtractedEntity,        *)
(* EntityDisambiguator, DEFAULT_SYNONYMS).                                 *)
(*                                                                         *)
(* Python str values are TLA+ strings; a character is a string of length   *)
(* one.  Floats are exact rationals <<numerator, denominator>>;            *)
(* confidences are hundredths.  Python dicts and lists are sequences (in   *)
(* insertion order), Python sets are sets.                                 *)
(***************************************************************************)
EXTENDS Integers, Sequences, FiniteSets, TLC

(***************************************************************************)
(* Characters and str methods                                              *)
(***************************************************************************)
At(s, i) == SubSeq(s, i, i)

\* the sequence f, evaluated once (f itself, as a tuple)
Tuple(f) == <<>> \o f

\* result, once value has been computed: Python evaluates the arguments of a
\* call before the call
Then(value, result) == IF value = value THEN result ELSE result




MinOf(S) == CHOOSE x \in S : \A y \in S : x <= y

MaxOf(S) == CHOOSE x \in S : \A y \in S : x >= y

\* str.find of a single character, from position i on; 0 when absent
IndexIn(c, s, i) ==
    LET hits == {j \in i..Len(s) : At(s, j) = c}
    IN IF hits = {} THEN 0 ELSE MinOf(hits)

UpperSet ==
    {"A", "B", "C", "D", "E", "F", "G", "H", "I", "J", "K", "L", "M", "N", "O", "P", "Q",
     "R", "S", "T", "U", "V", "W", "X", "Y", "Z"}

LowerSet ==
    {"a", "b", "c", "d", "e", "f", "g", "h", "i", "j", "k", "l", "m", "n", "o", "p", "q",
     "r", "s", "t", "u", "v", "w", "x", "y", "z"}

DigitSet ==
    {"0", "1", "2", "3", "4", "5", "6", "7", "8", "9"}

\* str.lower() on one character
LowerOf ==
    ("A" :> "a" @@ "B" :> "b" @@ "C" :> "c" @@ "D" :> "d" @@ "E" :> "e" @@ "F" :> "f" @@
     "G" :> "g" @@ "H" :> "h" @@ "I" :> "i" @@ "J" :> "j" @@ "K" :> "k" @@ "L" :> "l" @@
     "M" :> "m" @@ "N" :> "n" @@ "O" :> "o" @@ "P" :> "p" @@ "Q" :> "q" @@ "R" :> "r" @@
     "S" :> "s" @@ "T" :> "t" @@ "U" :> "u" @@ "V" :> "v" @@ "W" :> "w" @@ "X" :> "x" @@
     "Y" :> "y" @@ "Z" :> "z")

IsUpper(c) == c \in UpperSet

IsLowerAlnum(c) == c \in LowerSet \/ c \in DigitSet

IsAlpha(c) == c \in LowerSet \/ c \in UpperSet

IsAlnum(c) == IsAlpha(c) \/ c \in DigitSet

\* whitespace of the model's alphabet
IsSpace(c) == c = " "

LowerChar(c) == IF c \in UpperSet THEN LowerOf[c] ELSE c

RECURSIVE Gather(_, _, _)
\* "".join(F(i) for i in range(lo, hi + 1)), by halving
Gather(F(_), lo, hi) ==
    IF lo > hi THEN ""
    ELSE IF lo = hi THEN F(lo)
    ELSE LET mid == (lo + hi) \div 2
         IN Gather(F, lo, mid) \o Gather(F, mid + 1, hi)

StrLower(s) == Gather(LAMBDA i : LowerChar(At(s, i)), 1, Len(s))

\* str.strip()
Strip(s) ==
    LET solid == {j \in 1..Len(s) : ~IsSpace(At(s, j))}
    IN IF solid = {} THEN "" ELSE SubSeq(s, MinOf(solid), MaxOf(solid))

RStrip(s) ==
    LET solid == {j \in 1..Len(s) : ~IsSpace(At(s, j))}
    IN IF solid = {} THEN "" ELSE SubSeq(s, 1, MaxOf(solid))

\* s with every character c replaced by the string f(c)
MapChars(f(_), s) == Gather(LAMBDA i : f(At(s, i)), 1, Len(s))

\* re.sub(r"\s+", " ", s)
CollapseSpaces(s) ==
    Gather(LAMBDA i : IF IsSpace(At(s, i)) /\ i > 1 /\ IsSpace(At(s, i - 1))
                      THEN "" ELSE At(s, i),
           1, Len(s))

StartsWith(s, p) == Len(p) <= Len(s) /\ SubSeq(s, 1, Len(p)) = p

\* Python's  p in s  for strings
Contains(s, p) == \E i \in 1..(Len(s) - Len(p) + 1) : SubSeq(s, i, i + Len(p) - 1) = p

\* [t for t in re.split(r"\s+", s.strip()) if t]
Words(s) ==
    LET starts == {i \in 1..Len(s) :
                      ~IsSpace(At(s, i)) /\ (i = 1 \/ IsSpace(At(s, i - 1)))}
        EndOf(i) == MinOf({j \in i..Len(s) : j = Len(s) \/ IsSpace(At(s, j + 1))})
        Nth(k) == CHOOSE i \in starts : Cardinality({j \in starts : j < i}) = k - 1
    IN Tuple([k \in 1..Cardinality(starts) |-> SubSeq(s, Nth(k), EndOf(Nth(k)))])

Range(f) == {f[i] : i \in DOMAIN f}

Max2(a, b) == IF a >= b THEN a ELSE b

Min2(a, b) == IF a <= b THEN a ELSE b

\* code points, for sorted() on str: the characters the model uses, in order
OrdOf ==
    (" " :> 1 @@ "'" :> 2 @@ "(" :> 3 @@ ")" :> 4 @@ "-" :> 5 @@ "." :> 6 @@ "/" :> 7 @@
     "0" :> 8 @@ "1" :> 9 @@ "2" :> 10 @@ "3" :> 11 @@ "4" :> 12 @@ "5" :> 13 @@
     "6" :> 14 @@ "7" :> 15 @@ "8" :> 16 @@ "9" :> 17 @@ "A" :> 18 @@ "B" :> 19 @@
     "C" :> 20 @@ "D" :> 21 @@ "E" :> 22 @@ "F" :> 23 @@ "G" :> 24 @@ "H" :> 25 @@
     "I" :> 26 @@ "J" :> 27 @@ "K" :> 28 @@ "L" :> 29 @@ "M" :> 30 @@ "N" :> 31 @@
     "O" :> 32 @@ "P" :> 33 @@ "Q" :> 34 @@ "R" :> 35 @@ "S" :> 36 @@ "T" :> 37 @@
     "U" :> 38 @@ "V" :> 39 @@ "W" :> 40 @@ "X" :> 41 @@ "Y" :> 42 @@ "Z" :> 43 @@
     "_" :> 44 @@ "a" :> 45 @@ "b" :> 46 @@ "c" :> 47 @@ "d" :> 48 @@ "e" :> 49 @@
     "f" :> 50 @@ "g" :> 51 @@ "h" :> 52 @@ "i" :> 53 @@ "j" :> 54 @@ "k" :> 55 @@
     "l" :> 56 @@ "m" :> 57 @@ "n" :> 58 @@ "o" :> 59 @@ "p" :> 60 @@ "q" :> 61 @@
     "r" :> 62 @@ "s" :> 63 @@ "t" :> 64 @@ "u" :> 65 @@ "v" :> 66 @@ "w" :> 67 @@
     "x" :> 68 @@ "y" :> 69 @@ "z" :> 70)

Ord(c) == OrdOf[c]

\* a < b on str
StrLess(a, b) ==
    LET n == Min2(Len(a), Len(b))
        diff == {i \in 1..n : At(a, i) # At(b, i)}
    IN IF diff = {} THEN Len(a) < Len(b)
       ELSE Ord(At(a, MinOf(diff))) < Ord(At(b, MinOf(diff)))

RECURSIVE SortedStrings(_)
\* sorted(S) for a set of str
SortedStrings(S) ==
    IF S = {} THEN <<>>
    ELSE LET m == CHOOSE x \in S : \A y \in S \ {x} : StrLess(x, y)
         IN <<m>> \o SortedStrings(S \ {m})

RECURSIVE InsertByName(_, _)
\* one step of the stable sort of NameKeys on key[3]
InsertByName(k, sorted) ==
    IF sorted = <<>> THEN <<k>>
    ELSE IF StrLess(k[3], sorted[1][3]) THEN <<k>> \o sorted
    ELSE <<sorted[1]>> \o InsertByName(k, Tail(sorted))

RECURSIVE SortByName(_)
\* sorted(bucket_keys, key=lambda x: x[2])
SortByName(keys) ==
    IF keys = <<>> THEN <<>>
    ELSE InsertByName(keys[Len(keys)], SortByName(SubSeq(keys, 1, Len(keys) - 1)))

(***************************************************************************)
(* Ordered dict as a sequence of <<key, value>>                            *)
(***************************************************************************)
DictHas(d, k) == \E i \in DOMAIN d : d[i][1] = k

DictGet(d, k, default) ==
    IF DictHas(d, k) THEN d[CHOOSE i \in DOMAIN d : d[i][1] = k][2] ELSE default

DictSet(d, k, v) ==
    IF DictHas(d, k)
    THEN Tuple([i \in DOMAIN d |-> IF d[i][1] = k THEN <<k, v>> ELSE d[i]])
    ELSE Append(d, <<k, v>>)

(***************************************************************************)
(* entity_extractor.py: ExtractedEntity, EntityDisambiguator               *)
(***************************************************************************)
\* property values: str, int and list of str
PStr(s) == [tag |-> "str", s |-> s, n |-> 0, l |-> <<>>]

PInt(n) == [tag |-> "int", s |-> "", n |-> n, l |-> <<>>]

PList(l) == [tag |-> "list", s |-> "", n |-> 0, l |-> l]

\* ExtractedEntity(...) with __post_init__; source_paper_id None is ""
ExtractedEntity(type, name, definition, description, confidence, source, properties) ==
    [entity_type |-> type,
     name |-> StrLower(Strip(name)),
     definition |-> definition,
     description |-> description,
     confidence |-> confidence,
     source_paper_id |-> source,
     properties |-> properties]

DEFAULT_SYNONYMS ==
    << <<"artificial intelligence", "ai", "A.I.">>,
       <<"machine learning", "ml", "M.L.">>,
       <<"natural language processing", "nlp", "N.L.P.">>,
       <<"large language model", "llm", "L.L.M.", "large language models">>,
       <<"randomized controlled trial", "rct", "R.C.T.">>,
       <<"chatbot", "chat bot", "conversational agent", "dialogue system">>,
       <<"deep learning", "dl", "D.L.">>,
       <<"neural network", "nn", "neural net", "neural networks">> >>

RECURSIVE AddSynonyms(_, _, _)
\* EntityDisambiguator.add_synonym(group[1], group[2], ...)
AddSynonyms(map, group, i) ==
    IF i > Len(group) THEN map
    ELSE AddSynonyms(DictSet(map, StrLower(group[i]), StrLower(group[1])), group, i + 1)

RECURSIVE AddGroups(_, _, _)
AddGroups(map, groups, g) ==
    IF g > Len(groups) THEN map
    ELSE AddGroups(AddSynonyms(map, groups[g], 2), groups, g + 1)

\* create_default_disambiguator()._canonical_map
DefaultCanonicalMap == AddGroups(<<>>, DEFAULT_SYNONYMS, 1)

DictGetSelf(map, key) == DictGet(map, key, key)

\* a lookup that finds no synonym
NoSynonyms(map, name) == Strip(StrLower(name))

\* EntityDisambiguator.get_canonical_name
GetCanonicalName(map, name) == DictGetSelf(map, Strip(StrLower(name)))

(***************************************************************************)
(* entity_resolution.py: normalisation and acronym learning                *)
(***************************************************************************)
SurfaceChar(c) ==
    IF c \in {"_", "-", "/", "(", ")"} THEN " "
    ELSE IF c = "." THEN ""
    ELSE c

FineTuning(normalized) == IF normalized = "finetuning" THEN "fine tuning" ELSE normalized

\* _normalize_surface
NormalizeSurface(value) ==
    FineTuning(Strip(CollapseSpaces(MapChars(SurfaceChar, StrLower(Strip(value))))))

KeyChar(c) == IF IsLowerAlnum(c) THEN c ELSE ""

NormalizeAcronymKey(value) == MapChars(KeyChar, StrLower(value))

Initials(tokens) ==
    Gather(LAMBDA k : IF IsAlnum(At(tokens[k], 1)) THEN At(tokens[k], 1) ELSE "",
           1, Len(tokens))

\* the tests of _is_valid_acronym on the tokens and the acronym key
ValidAcronymKey(tokens, acronym_key) ==
    \/ NormalizeAcronymKey(Initials(tokens)) = acronym_key
    \/ /\ Len(tokens) = 1
       /\ Len(acronym_key) >= 2
       /\ StartsWith(NormalizeAcronymKey(tokens[1]), acronym_key)

\* a validation that accepts every acronym
AnyAcronym(long_form, acronym) == TRUE

\* _is_valid_acronym, called with both arguments non-empty
IsValidAcronym(long_form, acronym) ==
    ValidAcronymKey(Words(long_form), NormalizeAcronymKey(acronym))

\* [A-Za-z][A-Za-z0-9\.\-]{1,15}
AcronymShape(acr) ==
    /\ Len(acr) >= 2
    /\ Len(acr) <= 16
    /\ IsAlpha(At(acr, 1))
    /\ \A i \in 2..Len(acr) : IsAlnum(At(acr, i)) \/ At(acr, i) \in {".", "-"}

NoMatch == [ok |-> FALSE, long |-> "", acr |-> ""]

\* the match with the first "(" of t at open, t ending in ")"
MatchAt(t, open) ==
    IF /\ open > 1
       /\ At(t, Len(t)) = ")"
       /\ IndexIn(")", SubSeq(t, 1, open - 1), 1) = 0
       /\ AcronymShape(SubSeq(t, open + 1, Len(t) - 1))
    THEN [ok |-> TRUE, long |-> SubSeq(t, 1, open - 1),
          acr |-> SubSeq(t, open + 1, Len(t) - 1)]
    ELSE NoMatch

MatchIn(t) == IF t = "" THEN NoMatch ELSE MatchAt(t, IndexIn("(", t, 1))

\* the groups of ^\s*(?P<long>[^()]+?)\s*\((?P<acr>...)\)\s*$, or ok = FALSE
AcronymPattern(raw_name) == MatchIn(RStrip(raw_name))

\* a dict that keeps its last entry only
MapPutAlone(m, k, v) == (k :> v)

\* m[k] = v on a dict as a function on its key set
MapPut(m, k, v) == (k :> v) @@ m

NotLearnt(acronyms) == [long |-> "", acronyms |-> acronyms]

\* _learn_acronym_mapping from the two normalised groups of the match
LearnPair(acronyms, long_form, acronym) ==
    IF long_form = "" \/ acronym = "" THEN NotLearnt(acronyms)
    ELSE IF IsValidAcronym(long_form, acronym)
    THEN [long |-> long_form,
          acronyms |-> MapPut(MapPut(acronyms, acronym, long_form),
                              NormalizeAcronymKey(acronym), long_form)]
    ELSE NotLearnt(acronyms)

LearnMatch(acronyms, match) ==
    IF ~match.ok THEN NotLearnt(acronyms)
    ELSE LearnPair(acronyms, NormalizeSurface(match.long), NormalizeSurface(match.acr))

\* _learn_acronym_mapping: the returned long form ("" for None) and the map
LearnAcronymMapping(acronyms, raw_name) == LearnMatch(acronyms, AcronymPattern(raw_name))

\* self._learned_acronyms.get(key, default)
LearnedGet(acronyms, key, default) ==
    IF key \in DOMAIN acronyms THEN acronyms[key] ELSE default

\* no lookup in the learned map
IgnoreLearned(acronyms, name) == name

\* the learned long form of name, else of its acronym key, else name
LearnedLookup(acronyms, name) ==
    IF name \in DOMAIN acronyms THEN acronyms[name]
    ELSE LearnedGet(acronyms, NormalizeAcronymKey(name), name)

\* canonicalize_name after the first _normalize_surface
CanonicalOf(acronyms, synonyms, normalized) ==
    IF normalized = "" THEN ""
    ELSE LearnedLookup(acronyms,
             NormalizeSurface(GetCanonicalName(synonyms,
                 LearnedLookup(acronyms, normalized))))

\* canonicalize_name after _learn_acronym_mapping
CanonicalizeLearnt(learnt, synonyms, name) ==
    Then(learnt,
    [canonical |-> CanonicalOf(learnt.acronyms, synonyms,
                       NormalizeSurface(IF learnt.long # "" THEN learnt.long ELSE name)),
     acronyms |-> learnt.acronyms])

\* canonicalize_name: the canonical name and the learned-acronym map after it
CanonicalizeName(acronyms, synonyms, name) ==
    IF name = "" THEN [canonical |-> "", acronyms |-> acronyms]
    ELSE CanonicalizeLearnt(LearnAcronymMapping(acronyms, name), synonyms, name)

(***************************************************************************)
(* Homonym context buckets                                                 *)
(***************************************************************************)
\* self._homonym_context_rules, in dict order
HomonymContextRules ==
    << <<"sat",
         << <<"logic", <<"boolean", "satisfiability", "cnf", "solver", "constraint",
                         "propositional", "clause">> >>,
            <<"education", <<"scholastic", "aptitude", "student", "exam", "test score",
                             "college", "assessment">> >>,
            <<"attention", <<"self attention", "attention mechanism", "transformer",
                             "token", "sequence model">> >> >> >>,
       <<"transformer",
         << <<"deep_learning", <<"neural", "language model", "self attention", "token",
                                 "encoder", "decoder", "vision transformer",
                                 "embedding">> >>,
            <<"electrical", <<"voltage", "current", "power grid", "electrical",
                              "winding", "coil">> >> >> >> >>

RECURSIVE Flatten(_)
\* concatenation of a sequence of sequences
Flatten(ss) == IF Len(ss) = 0 THEN <<>> ELSE Head(ss) \o Flatten(Tail(ss))

\* _iter_property_strings of one property value
IterPropertyStrings(value) ==
    IF value.tag = "str" THEN <<value.s>>
    ELSE IF value.tag = "int" THEN <<ToString(value.n)>>
    ELSE value.l

\* " ".join(chunks)
JoinSpace(chunks) ==
    Gather(LAMBDA i : IF i = 1 THEN chunks[i] ELSE " " \o chunks[i], 1, Len(chunks))

\* the context text without definition, description and properties
ContextTextNameOnly(entity) == StrLower(entity.name)

\* _build_context_text
BuildContextText(entity) ==
    LET props == entity.properties
        chunks == <<entity.name, entity.definition, entity.description>>
                  \o Flatten(Tuple([i \in DOMAIN props |->
                                        IterPropertyStrings(props[i][2])]))
    IN StrLower(JoinSpace(chunks))

\* a loop that stops at the first bucket with a keyword in the text
FirstScoring(buckets, text, i, best_bucket, best_score) ==
    IF \A b \in DOMAIN buckets : \A k \in DOMAIN buckets[b][2] : ~Contains(text, buckets[b][2][k])
    THEN best_bucket
    ELSE buckets[MinOf({b \in DOMAIN buckets :
                          \E k \in DOMAIN buckets[b][2] : Contains(text, buckets[b][2][k])})][1]

RECURSIVE BestBucket(_, _, _, _, _)
\* the loop of _infer_context_bucket over rules.items()
BestBucket(buckets, text, i, best_bucket, best_score) ==
    IF i > Len(buckets) THEN best_bucket
    ELSE LET keywords == buckets[i][2]
             score == Cardinality({k \in DOMAIN keywords : Contains(text, keywords[k])})
         IN IF score > best_score
            THEN BestBucket(buckets, text, i + 1, buckets[i][1], score)
            ELSE BestBucket(buckets, text, i + 1, best_bucket, best_score)

\* _infer_context_bucket(...) or "__default__"
InferContextBucket(rules, canonical_name, entity) ==
    IF ~DictHas(rules, canonical_name) THEN "__default__"
    ELSE BestBucket(DictGet(rules, canonical_name, <<>>), BuildContextText(entity),
                    1, "generic", 0)

(***************************************************************************)
(* Similarity: difflib.SequenceMatcher(None, a, b).ratio() and Jaccard     *)
(***************************************************************************)
RECURSIVE Gcd(_, _)
Gcd(a, b) == IF b = 0 THEN a ELSE Gcd(b, a % b)

\* the rational n/d in lowest terms
Frac(n, d) == IF n = 0 THEN <<0, 1>> ELSE <<n \div Gcd(n, d), d \div Gcd(n, d)>>

FracLess(x, y) == x[1] * y[2] < y[1] * x[2]

FracGeq(x, y) == ~FracLess(x, y)

\* SequenceMatcher.find_longest_match on a[alo..ahi], b[blo..bhi] (1-based,
\* inclusive): the longest block, the earliest in a, then the earliest in b
FindLongestMatch(a, b, alo, ahi, blo, bhi) ==
    LET RunLen(i, j) ==
            IF At(a, i) # At(b, j) THEN 0
            ELSE MaxOf({k \in 1..Min2(ahi - i + 1, bhi - j + 1) :
                           SubSeq(a, i, i + k - 1) = SubSeq(b, j, j + k - 1)})
        blocks == {<<i, j, RunLen(i, j)>> : i \in alo..ahi, j \in blo..bhi}
        size == MaxOf({x[3] : x \in blocks})
        longest == {x \in blocks : x[3] = size}
        i == MinOf({x[1] : x \in longest})
    IN <<i, MinOf({x[2] : x \in {y \in longest : y[1] = i}}), size>>

RECURSIVE MatchingSize(_, _, _, _, _, _)

\* the block m and the matching blocks to its left and to its right
MatchingAround(a, b, alo, ahi, blo, bhi, m) ==
    IF m[3] = 0 THEN 0
    ELSE m[3] + MatchingSize(a, b, alo, m[1] - 1, blo, m[2] - 1)
              + MatchingSize(a, b, m[1] + m[3], ahi, m[2] + m[3], bhi)

\* sum of the sizes of SequenceMatcher.get_matching_blocks()
MatchingSize(a, b, alo, ahi, blo, bhi) ==
    IF alo > ahi \/ blo > bhi THEN 0
    ELSE MatchingAround(a, b, alo, ahi, blo, bhi,
                        FindLongestMatch(a, b, alo, ahi, blo, bhi))

\* _tokenize
Tokenize(value) == Range(Words(value))

\* one acronym key is a prefix of the other, both non-empty
AcronymBoost(left_key, right_key) ==
    /\ left_key # ""
    /\ right_key # ""
    /\ StartsWith(left_key, right_key) \/ StartsWith(right_key, left_key)

\* 0.55 * 2M/T + 0.45 * I/U, plus 0.1 capped at 1.0 when boosted, exactly
BlendedScore(I, U, M, T, boost) ==
    Frac(IF boost THEN Min2(20 * T * U, 22 * M * U + 9 * I * T + 2 * T * U)
         ELSE 22 * M * U + 9 * I * T,
         20 * T * U)

\* _similarity_score of two different strings with their token sets
TokenScore(left, right, left_tokens, right_tokens) ==
    IF left_tokens = {} \/ right_tokens = {} THEN <<0, 1>>
    ELSE BlendedScore(Cardinality(left_tokens \cap right_tokens),
                      Cardinality(left_tokens \cup right_tokens),
                      MatchingSize(left, right, 1, Len(left), 1, Len(right)),
                      Len(left) + Len(right),
                      AcronymBoost(NormalizeAcronymKey(left), NormalizeAcronymKey(right)))

\* _similarity_score
SimilarityScore(left, right) ==
    IF left = right THEN <<1, 1>>
    ELSE TokenScore(left, right, Tokenize(left), Tokenize(right))

(***************************************************************************)
(* Records, name keys and name stats                                       *)
(***************************************************************************)
\* the elements of a set of indices, ascending
Ascending(S) ==
    Tuple([k \in 1..Cardinality(S) |->
              CHOOSE i \in S : Cardinality({j \in S : j < i}) = k - 1])

KeyOf(record) == <<record.entity_type, record.context_bucket, record.canonical_name>>

\* a record whose bucket is the paper the entity came from
RecordBySource(rules, entity, canonical_name) ==
    [entity |-> entity,
     entity_type |-> entity.entity_type,
     canonical_name |-> canonical_name,
     context_bucket |-> entity.source_paper_id]

\* one dict of records.append(...) in _build_records
RecordOf(rules, entity, canonical_name) ==
    [entity |-> entity,
     entity_type |-> entity.entity_type,
     canonical_name |-> canonical_name,
     context_bucket |-> InferContextBucket(rules, canonical_name, entity)]

\* records.append(...) whatever the canonical name
AppendAlways(records, rules, entity, canonical_name) ==
    Append(records, RecordOf(rules, entity, canonical_name))

\* if not canonical: continue; else records.append(...)
AppendRecord(records, rules, entity, canonical_name) ==
    IF canonical_name = "" THEN records
    ELSE Append(records, RecordOf(rules, entity, canonical_name))

RECURSIVE BuildRecordsFrom(_, _, _, _, _, _)

\* one iteration of the loop of _build_records, c being canonicalize_name's result
BuildRecordsStep(c, synonyms, rules, entities, i, records) ==
    Then(c, BuildRecordsFrom(c.acronyms, synonyms, rules, entities, i + 1,
                             AppendRecord(records, rules, entities[i], c.canonical)))

\* the loop of _build_records from entity i on
BuildRecordsFrom(acronyms, synonyms, rules, entities, i, records) ==
    IF i > Len(entities) THEN [records |-> records, acronyms |-> acronyms]
    ELSE Then(records, BuildRecordsStep(CanonicalizeName(acronyms, synonyms, entities[i].name),
                          synonyms, rules, entities, i, records))

\* a loop that runs twice, the second time with what the first learned
BuildRecordsTwice(acronyms, synonyms, rules, entities) ==
    BuildRecordsFrom(BuildRecordsFrom(acronyms, synonyms, rules, entities, 1, <<>>).acronyms,
                     synonyms, rules, entities, 1, <<>>)

\* _build_records: the records and the learned-acronym map after the loop
BuildRecords(acronyms, synonyms, rules, entities) ==
    BuildRecordsFrom(acronyms, synonyms, rules, entities, 1, <<>>)

RECURSIVE BuildNameStatsFrom(_, _, _)
BuildNameStatsFrom(records, i, stats) ==
    IF i > Len(records) THEN stats
    ELSE LET key == KeyOf(records[i])
             old == DictGet(stats, key, [count |-> 0, max_conf |-> 0])
             new == [count |-> old.count + 1,
                     max_conf |-> Max2(old.max_conf, records[i].entity.confidence)]
         IN BuildNameStatsFrom(records, i + 1, DictSet(stats, key, new))

\* _build_name_stats: ordered dict NameKey -> [count, max_conf]
BuildNameStats(records) == BuildNameStatsFrom(records, 1, <<>>)

\* list(name_stats.keys())
NameKeys(name_stats) == Tuple([i \in DOMAIN name_stats |-> name_stats[i][1]])

(***************************************************************************)
(* Candidate pairs                                                         *)
(***************************************************************************)
\* grouping by entity type alone
BlockByType(key) == <<key[1], "__default__">>

\* (key[0], key[1]): the group a key is compared within
BlockOf(key) == <<key[1], key[2]>>

\* the candidate <<left, right, score>> when it reaches min_similarity
Scored(left, right, score, min_similarity) ==
    IF FracGeq(score, min_similarity) THEN << <<left, right, score>> >> ELSE <<>>

\* an inner loop that compares names of any two lengths
PairAnyLength(left, right, min_similarity) ==
    Scored(left, right, SimilarityScore(left[3], right[3]), min_similarity)

\* the body of the inner loop of _generate_candidate_pairs
PairOf(left, right, min_similarity) ==
    IF Len(left[3]) - Len(right[3]) > 20 \/ Len(right[3]) - Len(left[3]) > 20 THEN <<>>
    ELSE Scored(left, right, SimilarityScore(left[3], right[3]), min_similarity)

\* the pairs of one (entity_type, context_bucket) group, i < j over the
\* name-sorted keys, that pass the length filter and reach min_similarity
BlockPairs(ordered, min_similarity) ==
    Flatten(Tuple([i \in DOMAIN ordered |->
        Flatten(Tuple([j \in DOMAIN ordered |->
            IF j > i THEN PairOf(ordered[i], ordered[j], min_similarity) ELSE <<>>]))]))

RECURSIVE InsertByScore(_, _)
\* x goes after every pair whose score is at least its own
InsertByScore(x, sorted) ==
    IF sorted = <<>> THEN <<x>>
    ELSE IF FracLess(sorted[1][3], x[3]) THEN <<x>> \o sorted
    ELSE <<sorted[1]>> \o InsertByScore(x, Tail(sorted))

RECURSIVE SortByScoreDesc(_)
\* candidates.sort(key=lambda item: item[2], reverse=True), stable
SortByScoreDesc(pairs) ==
    IF pairs = <<>> THEN <<>>
    ELSE InsertByScore(pairs[Len(pairs)],
                       SortByScoreDesc(SubSeq(pairs, 1, Len(pairs) - 1)))

\* the first index of each (entity_type, context_bucket): grouped.keys()
BlockFirsts(name_keys) ==
    Ascending({i \in DOMAIN name_keys :
                  \A j \in 1..(i - 1) : BlockOf(name_keys[j]) # BlockOf(name_keys[i])})

\* the candidates of one bucket_keys
BucketPairs(bucket_keys, min_similarity) ==
    IF Len(bucket_keys) < 2 THEN <<>>
    ELSE BlockPairs(SortByName(bucket_keys), min_similarity)

\* candidates before the sort, over grouped.values()
Candidates(name_keys, groups, min_similarity) ==
    Flatten(Tuple([g \in DOMAIN groups |->
        BucketPairs(SelectSeq(name_keys,
                              LAMBDA k : BlockOf(k) = BlockOf(name_keys[groups[g]])),
                    min_similarity)]))

\* candidates[:max_pairs]
Truncate(sorted, max_pairs) ==
    IF max_pairs = <<>> THEN sorted
    ELSE SubSeq(sorted, 1, Min2(Len(sorted), max_pairs[1]))

\* _generate_candidate_pairs; max_pairs is <<>> for None and <<n>> for n
GenerateCandidatePairs(name_keys, min_similarity, max_pairs) ==
    IF Len(name_keys) < 2 THEN <<>>
    ELSE Truncate(SortByScoreDesc(Candidates(name_keys, BlockFirsts(name_keys),
                                             min_similarity)),
                  max_pairs)

(***************************************************************************)
(* Union-find clustering and canonical selection                           *)
(***************************************************************************)
NoStats == [count |-> 0, max_conf |-> 0]

\* a sort key that puts the confidence first
RankByConfidence(st, key) == <<st.max_conf, st.count, Len(key[3])>>

\* (int(stat["count"]), float(stat["max_conf"]), len(key[2]))
RankOf(st, key) == <<st.count, st.max_conf, Len(key[3])>>

\* the sort key of _select_cluster_canonical
Rank(key, name_stats) == RankOf(DictGet(name_stats, key, NoStats), key)

RankLess(x, y) ==
    \/ x[1] < y[1]
    \/ x[1] = y[1] /\ x[2] < y[2]
    \/ x[1] = y[1] /\ x[2] = y[2] /\ x[3] < y[3]

\* sorted(cluster_keys, key=..., reverse=True)[0][2]: the sort is stable, so
\* the first key of maximal rank
SelectClusterCanonical(cluster_keys, name_stats) ==
    cluster_keys[MinOf({i \in DOMAIN cluster_keys :
                           \A j \in DOMAIN cluster_keys :
                               ~RankLess(Rank(cluster_keys[i], name_stats),
                                         Rank(cluster_keys[j], name_stats))})][3]

\* a find that goes one step up
ParentOf(parent, node) == parent[node]

RECURSIVE Find(_, _)
\* find(node): the root; path halving changes no root
Find(parent, node) == IF parent[node] = node THEN node ELSE Find(parent, parent[node])

\* parent[rb] = ra when the roots differ
Link(parent, ra, rb) == IF ra # rb THEN [parent EXCEPT ![rb] = ra] ELSE parent

\* a union of the two nodes instead of their roots
LinkNodes(parent, a, b) == Link(parent, a, b)

\* union(a, b)
Union(parent, a, b) == Link(parent, Find(parent, a), Find(parent, b))

RECURSIVE UnionAll(_, _, _)
\* for left, right in accepted_pairs: ..., in the given iteration order
UnionAll(parent, pairs, i) ==
    IF i > Len(pairs) THEN parent
    ELSE UnionAll(IF pairs[i][1] \in DOMAIN parent /\ pairs[i][2] \in DOMAIN parent
                  THEN Union(parent, pairs[i][1], pairs[i][2]) ELSE parent,
                  pairs, i + 1)

RECURSIVE Enumerate(_)
\* one enumeration of a finite set
Enumerate(S) ==
    IF S = {} THEN <<>>
    ELSE LET x == CHOOSE y \in S : TRUE IN <<x>> \o Enumerate(S \ {x})

Reverse(seq) == Tuple([i \in 1..Len(seq) |-> seq[Len(seq) + 1 - i]])

\* iteration over a Python set: the order is not specified; two orders
IterateSet(S, reversed) == IF reversed THEN Reverse(Enumerate(S)) ELSE Enumerate(S)

\* {(left, right) for left, right, _ in auto_pairs}
PairSet(pairs) == {<<pairs[i][1], pairs[i][2]>> : i \in DOMAIN pairs}

\* accepted pairs that are the confirmed pairs alone once there are any
ConfirmedInstead(name_keys, confirmed_pairs, auto_merge_threshold) ==
    IF confirmed_pairs = {}
    THEN PairSet(GenerateCandidatePairs(name_keys, auto_merge_threshold, <<>>))
    ELSE confirmed_pairs

\* the accepted pairs of _build_alias_map
AcceptedPairs(name_keys, confirmed_pairs, auto_merge_threshold) ==
    PairSet(GenerateCandidatePairs(name_keys, auto_merge_threshold, <<>>))
    \cup confirmed_pairs

\* the parent map of _build_alias_map after the unions
ParentAfterUnions(name_keys, accepted, reversed) ==
    UnionAll([k \in Range(name_keys) |-> k], IterateSet(accepted, reversed), 1)

\* the keys with the given indices, in index order
KeysAt(name_keys, indices) ==
    Tuple([m \in DOMAIN indices |-> name_keys[indices[m]]])

\* clusters.values() from the root of every key: the keys grouped by root,
\* in name_keys order
GroupByRoot(name_keys, root) ==
    Tuple([c \in DOMAIN name_keys |->
        IF \E j \in 1..(c - 1) : root[j] = root[c] THEN <<>>
        ELSE << KeysAt(name_keys,
                       Ascending({i \in DOMAIN name_keys : root[i] = root[c]})) >>])

ClustersOf(name_keys, parent) ==
    Flatten(GroupByRoot(name_keys,
                        Tuple([i \in DOMAIN name_keys |-> Find(parent, name_keys[i])])))

\* the unions and the grouping of _build_alias_map: the clusters
Clustering(name_keys, confirmed_pairs, auto_merge_threshold, reversed) ==
    IF name_keys = <<>> THEN <<>>
    ELSE ClustersOf(name_keys,
             ParentAfterUnions(name_keys,
                 AcceptedPairs(name_keys, confirmed_pairs, auto_merge_threshold),
                 reversed))

\* every key of a cluster under its own name
EntriesOfOwnNames(cluster_keys, canonical_name) ==
    Tuple([i \in DOMAIN cluster_keys |-> <<cluster_keys[i], cluster_keys[i][3]>>])

\* alias_map[key] = canonical_name for every key of one cluster
ClusterEntries(cluster_keys, canonical_name) ==
    Tuple([i \in DOMAIN cluster_keys |-> <<cluster_keys[i], canonical_name>>])

\* the alias map of the clusters, in clusters.values() order
AliasEntries(clusters, name_stats) ==
    Flatten(Tuple([c \in DOMAIN clusters |->
        ClusterEntries(clusters[c], SelectClusterCanonical(clusters[c], name_stats))]))

AliasMapOf(clusters, name_stats) ==
    Then(clusters, [clusters |-> clusters, alias_map |-> AliasEntries(clusters, name_stats)])

\* _build_alias_map: the clusters it forms and the dict it returns,
\* NameKey -> canonical name of its cluster
BuildAliasMap(name_keys, name_stats, confirmed_pairs, auto_merge_threshold, reversed) ==
    AliasMapOf(Clustering(name_keys, confirmed_pairs, auto_merge_threshold, reversed),
               name_stats)

(***************************************************************************)
(* Merged entities                                                         *)
(***************************************************************************)
\* item.properties.get("source_paper_ids", []), a list of str
\* a str value is iterated character by character
SourceIdsOf(value) ==
    IF value.tag = "str" THEN [i \in 1..Len(value.s) |-> SubSeq(value.s, i, i)]
    ELSE value.l

PropertySourceIds(entity) ==
    SourceIdsOf(DictGet(entity.properties, "source_paper_ids", PList(<<>>)))

\* for source_id in item.properties.get("source_paper_ids", []) raises
\* TypeError on a value that cannot be iterated
SourceIdsRaise(entity) ==
    DictGet(entity.properties, "source_paper_ids", PList(<<>>)).tag = "int"

\* _resolve_with_alias_map raises: every record is in one of its groups
MergeRaises(records) == \E i \in DOMAIN records : SourceIdsRaise(records[i].entity)

\* max(group, key=lambda e: e.confidence): the first of maximal confidence
BestOf(group) ==
    group[MinOf({i \in DOMAIN group :
                    \A j \in DOMAIN group : group[i].confidence >= group[j].confidence})]

SourcePaperIds(group) ==
    UNION {({group[i].source_paper_id} \cup Range(PropertySourceIds(group[i]))) \ {""} :
              i \in DOMAIN group}

AliasesOf(group) == {group[i].name : i \in DOMAIN group}

\* if aliases: properties["aliases"] = sorted(aliases)
WithAliases(properties, aliases) ==
    IF aliases # {} THEN DictSet(properties, "aliases", PList(SortedStrings(aliases)))
    ELSE properties

\* if context_bucket != "__default__": properties["resolution_context_bucket"] = ...
WithBucket(properties, context_bucket) ==
    IF context_bucket # "__default__"
    THEN DictSet(properties, "resolution_context_bucket", PStr(context_bucket))
    ELSE properties

MergedProperties(properties, source_paper_ids, aliases, context_bucket) ==
    WithBucket(
        WithAliases(
            DictSet(DictSet(properties, "source_paper_ids",
                            PList(SortedStrings(source_paper_ids))),
                    "alias_count", PInt(Cardinality(aliases))),
            aliases),
        context_bucket)

MergedEntity(best, canonical_name, confidence, properties) ==
    ExtractedEntity(best.entity_type, canonical_name, best.definition, best.description,
                    confidence, "", properties)

\* properties = best.properties: the dict of the input entity itself
PropertiesOfBest(properties) == [dict |-> properties, shared |-> TRUE]

\* properties = dict(best.properties or {}): a new dict with the same items;
\* shared tells whether writing to it writes to the dict of the input entity
CopyOfProperties(properties) == [dict |-> properties, shared |-> FALSE]

\* the resolved entity of one group of _resolve_with_alias_map
MergeGroup(context_bucket, canonical_name, group) ==
    MergedEntity(BestOf(group), canonical_name,
                 MaxOf({group[i].confidence : i \in DOMAIN group}),
                 MergedProperties(CopyOfProperties(BestOf(group).properties).dict,
                                  SourcePaperIds(group), AliasesOf(group), context_bucket))

\* an input entity of the group once _resolve_with_alias_map has written the
\* properties of the group's resolved entity
EntityAfterMerge(entity, is_best, context_bucket, group) ==
    IF is_best /\ CopyOfProperties(entity.properties).shared
    THEN [entity EXCEPT !.properties =
             MergedProperties(entity.properties, SourcePaperIds(group),
                              AliasesOf(group), context_bucket)]
    ELSE entity

\* the key under which _resolve_with_alias_map groups a record
MergedKey(record, alias_map) ==
    <<record.entity_type, record.context_bucket,
      DictGet(alias_map, KeyOf(record), record.canonical_name)>>

\* the entities of the records with the given indices
EntitiesAt(records, indices) ==
    Tuple([m \in DOMAIN indices |-> records[indices[m]].entity])

\* grouped.items() from the merged key of every record, each as one resolved
\* entity, in order of first occurrence
MergeByKey(records, merged) ==
    Tuple([g \in DOMAIN records |->
        IF \E j \in 1..(g - 1) : merged[j] = merged[g] THEN <<>>
        ELSE << MergeGroup(merged[g][2], merged[g][3],
                    EntitiesAt(records,
                               Ascending({i \in DOMAIN records : merged[i] = merged[g]}))) >>])

\* _resolve_with_alias_map
ResolveWithAliasMap(records, alias_map) ==
    Flatten(MergeByKey(records,
                       Tuple([i \in DOMAIN records |-> MergedKey(records[i], alias_map)])))

\* the indices of the records grouped with record i, in order
GroupOf(records, alias_map, i) ==
    Ascending({j \in DOMAIN records :
                  MergedKey(records[j], alias_map) = MergedKey(records[i], alias_map)})

\* record i holds the entity max() picks in its group
IsBest(records, group, i) ==
    i = MinOf({j \in Range(group) :
                  \A k \in Range(group) :
                      records[j].entity.confidence >= records[k].entity.confidence})

\* the entities the records refer to, as _resolve_with_alias_map leaves them
EntitiesAfterMerge(records, alias_map) ==
    Tuple([i \in DOMAIN records |->
        EntityAfterMerge(records[i].entity,
                         IsBest(records, GroupOf(records, alias_map, i), i),
                         records[i].context_bucket,
                         EntitiesAt(records, GroupOf(records, alias_map, i)))])

(***************************************************************************)
(* Stats and audit samples                                                 *)
(***************************************************************************)
\* round(score, 3) in thousandths
Round3(score) == (2000 * score[1] + score[2]) \div (2 * score[2])

RECURSIVE InsertAscending(_, _)
InsertAscending(x, sorted) ==
    IF sorted = <<>> THEN <<x>>
    ELSE IF FracLess(x[3], sorted[1][3]) THEN <<x>> \o sorted
    ELSE <<sorted[1]>> \o InsertAscending(x, Tail(sorted))

\* the pairs left in the order they came in
Unsorted(pairs) == pairs

RECURSIVE SortByScoreAsc(_)
\* sampled.sort(key=lambda item: item[2]), stable
SortByScoreAsc(pairs) ==
    IF pairs = <<>> THEN <<>>
    ELSE InsertAscending(pairs[Len(pairs)],
                         SortByScoreAsc(SubSeq(pairs, 1, Len(pairs) - 1)))

\* score_map of the uncertain pairs: both orientations of every pair
ScoreMapKeys(uncertain_pairs) ==
    UNION {{<<uncertain_pairs[i][1], uncertain_pairs[i][2]>>,
            <<uncertain_pairs[i][2], uncertain_pairs[i][1]>>} : i \in DOMAIN uncertain_pairs}

\* score_map.get((left, right)): the last uncertain pair on these two keys
ScoreMapGet(uncertain_pairs, left, right) ==
    uncertain_pairs[MaxOf({i \in DOMAIN uncertain_pairs :
        {uncertain_pairs[i][1], uncertain_pairs[i][2]} = {left, right}})][3]

sample_limit == 10

\* the confirmed pairs that have a score, each with its score
ScoredPairs(order, uncertain_pairs) ==
    Flatten(Tuple([i \in DOMAIN order |->
        IF order[i] \in ScoreMapKeys(uncertain_pairs)
        THEN << <<order[i][1], order[i][2],
                  ScoreMapGet(uncertain_pairs, order[i][1], order[i][2])>> >>
        ELSE <<>>]))

\* the dicts of sampled[:sample_limit]
SampleDicts(cut) ==
    Tuple([i \in DOMAIN cut |->
              [entity_type |-> cut[i][1][1],
               context_bucket |-> cut[i][1][2],
               left |-> cut[i][1][3],
               right |-> cut[i][2][3],
               similarity |-> Round3(cut[i][3])]])

FirstN(seq, n) == SubSeq(seq, 1, Min2(Len(seq), n))

\* _build_potential_false_merge_samples
BuildPotentialFalseMergeSamples(uncertain_pairs, confirmed_pairs, reversed) ==
    IF uncertain_pairs = <<>> \/ confirmed_pairs = {} THEN <<>>
    ELSE SampleDicts(FirstN(SortByScoreAsc(ScoredPairs(IterateSet(confirmed_pairs, reversed),
                                                       uncertain_pairs)),
                            sample_limit))

\* EntityResolutionStats(...); canonicalization_rate is a rational, 0.0 is <<0, 1>>
EntityResolutionStats(raw_entities, resolved_entities, merged_entities, canonicalization_rate, llm_pairs_reviewed, llm_pairs_confirmed, potential_false_merge_count, potential_false_merge_samples) ==
    [raw_entities |-> raw_entities,
     resolved_entities |-> resolved_entities,
     merged_entities |-> merged_entities,
     canonicalization_rate |-> canonicalization_rate,
     llm_pairs_reviewed |-> llm_pairs_reviewed,
     llm_pairs_confirmed |-> llm_pairs_confirmed,
     potential_false_merge_count |-> potential_false_merge_count,
     potential_false_merge_samples |-> potential_false_merge_samples]

\* the difference taken the other way round
MergedCountSwapped(raw_count, resolved_count) == Max2(0, resolved_count - raw_count)

\* merged_count = max(0, raw_count - resolved_count)
MergedCount(raw_count, resolved_count) == Max2(0, raw_count - resolved_count)

\* rate = (merged_count / raw_count) if raw_count else 0.0
Rate(merged_count, raw_count) ==
    IF raw_count # 0 THEN Frac(merged_count, raw_count) ELSE <<0, 1>>

\* the stats resolve_entities builds
SyncStats(raw_count, resolved_count) ==
    EntityResolutionStats(raw_count, resolved_count,
                          MergedCount(raw_count, resolved_count),
                          Rate(MergedCount(raw_count, resolved_count), raw_count),
                          0, 0, 0, <<>>)

\* sum(1 for left, right in confirmed_pairs if (left, right) in score_map)
PotentialFalseMergeCount(uncertain_pairs, confirmed_pairs) ==
    Cardinality(confirmed_pairs \cap ScoreMapKeys(uncertain_pairs))

\* the stats resolve_entities_async builds
AsyncStats(raw_count, resolved_count, uncertain_pairs, confirmed_pairs, reversed) ==
    EntityResolutionStats(raw_count, resolved_count,
                          MergedCount(raw_count, resolved_count),
                          Rate(MergedCount(raw_count, resolved_count), raw_count),
                          Len(uncertain_pairs), Cardinality(confirmed_pairs),
                          PotentialFalseMergeCount(uncertain_pairs, confirmed_pairs),
                          BuildPotentialFalseMergeSamples(uncertain_pairs,
                                                          confirmed_pairs, reversed))

(***************************************************************************)
(* resolve_entities and resolve_entities_async                             *)
(***************************************************************************)
\* EntityResolutionService.__init__: the judge (llm_provider given or not) and
\* the thresholds; 0.95 is <<19, 20>>, 0.82 is <<41, 50>>
ServiceConfig(llm, auto_merge, review, max_checks, batch_size) ==
    [llm |-> llm,
     auto_merge_threshold |-> auto_merge,
     llm_review_threshold |-> review,
     max_llm_pair_checks |-> max_checks,
     llm_batch_size |-> batch_size]

DefaultAutoMerge == <<19, 20>>

DefaultReview == <<41, 50>>

\* what a call computed and returned: resolved and stats are its result
OutcomeOf(entities, records, name_keys, built, uncertain_pairs, confirmed_pairs, resolved, stats) ==
    [entities |-> entities,
     records |-> records,
     name_keys |-> name_keys,
     clusters |-> built.clusters,
     alias_map |-> built.alias_map,
     uncertain_pairs |-> uncertain_pairs,
     confirmed_pairs |-> confirmed_pairs,
     resolved |-> resolved,
     stats |-> stats]

\* a call from resolved on: the stats
OutcomeResolved(entities, records, name_keys, built, uncertain_pairs, confirmed_pairs, reversed, async, resolved) ==
    Then(resolved,
         OutcomeOf(entities, records, name_keys, built, uncertain_pairs, confirmed_pairs,
                   resolved,
                   IF async
                   THEN AsyncStats(Len(entities), Len(resolved), uncertain_pairs,
                                   confirmed_pairs, reversed)
                   ELSE SyncStats(Len(entities), Len(resolved))))

\* a call from alias_map on
OutcomeBuilt(entities, records, name_keys, built, uncertain_pairs, confirmed_pairs, reversed, async) ==
    Then(built,
         OutcomeResolved(entities, records, name_keys, built, uncertain_pairs,
                         confirmed_pairs, reversed, async,
                         ResolveWithAliasMap(records, built.alias_map)))

\* a call from its records, name stats and confirmed pairs on
Outcome(cfg, entities, records, name_stats, uncertain_pairs, confirmed_pairs, reversed, async) ==
    Then(name_stats,
         OutcomeBuilt(entities, records, NameKeys(name_stats),
                      BuildAliasMap(NameKeys(name_stats), name_stats, confirmed_pairs,
                                    cfg.auto_merge_threshold, reversed),
                      uncertain_pairs, confirmed_pairs, reversed, async))

\* if not entities: return [], EntityResolutionStats(0, 0, 0, 0.0)
EmptyOutcome ==
    OutcomeOf(<<>>, <<>>, <<>>, [clusters |-> <<>>, alias_map |-> <<>>], <<>>, {}, <<>>,
              EntityResolutionStats(0, 0, 0, <<0, 1>>, 0, 0, 0, <<>>))

\* resolve_entities after _build_records
ResolveBuilt(cfg, entities, built, reversed) ==
    Then(built,
         [out |-> Outcome(cfg, entities, built.records, BuildNameStats(built.records),
                          <<>>, {}, reversed, FALSE),
          acronyms |-> built.acronyms])

\* resolve_entities: the outcome and the learned-acronym map after the call
ResolveEntities(acronyms, synonyms, rules, cfg, entities, reversed) ==
    IF entities = <<>> THEN [out |-> EmptyOutcome, acronyms |-> acronyms]
    ELSE ResolveBuilt(cfg, entities, BuildRecords(acronyms, synonyms, rules, entities),
                      reversed)

\* the review pairs of a call that asks no leave
AlwaysReview(cfg, name_keys, use_llm_confirmation) ==
    SelectSeq(GenerateCandidatePairs(name_keys, cfg.llm_review_threshold,
                                     <<cfg.max_llm_pair_checks>>),
              LAMBDA pair : FracLess(pair[3], cfg.auto_merge_threshold))

\* resolve_entities_async up to the call of _confirm_candidate_pairs_with_llm:
\* the pairs to review (<<>> when the judge is not consulted)
UncertainPairs(cfg, name_keys, use_llm_confirmation) ==
    IF use_llm_confirmation /\ cfg.llm /\ Len(name_keys) >= 2
    THEN SelectSeq(GenerateCandidatePairs(name_keys, cfg.llm_review_threshold,
                                          <<cfg.max_llm_pair_checks>>),
                   LAMBDA pair : FracLess(pair[3], cfg.auto_merge_threshold))
    ELSE <<>>

\* one batch of _confirm_candidate_pairs_with_llm: id_to_pair as pair number
\* (the n of "p<n>") -> index into review_pairs
BatchIds(review_pairs, batch_start, batch_size) ==
    (batch_start + 1)..Min2(batch_start + batch_size, Len(review_pairs))

\* what self.llm.generate(...) does with one batch, by kind:
\*   "raise"      the call raises, or times out
\*   "text"       it returns text that holds no JSON object
\*   "array"      it returns JSON that is not an object
\*   "no_list"    it returns an object whose "decisions" cannot be iterated
\*   "decisions"  it returns an object with a list of decisions; same_ids are
\*                the n of its decisions {"id": "p<n>", "same": true} and
\*                truthy_ids the n of those whose "same" is another value
\*                that bool() takes for true, such as the string "false";
\*                decisions of any other shape are skipped by the loop
JudgeResponse(kind, same_ids, truthy_ids) ==
    [kind |-> kind, same_ids |-> same_ids, truthy_ids |-> truthy_ids]

\* the pairs the decisions loop adds to confirmed: bool(decision.get("same"))
\* and pair_id in id_to_pair.  A "text" response gives the payload {}
ConfirmedByReply(review_pairs, batch_start, batch_size, reply) ==
    IF reply.kind # "decisions" THEN {}
    ELSE {<<review_pairs[n][1], review_pairs[n][2]>> :
             n \in (reply.same_ids \cup reply.truthy_ids)
                   \cap BatchIds(review_pairs, batch_start, batch_size)}

\* a statement that raised, and one that completed with a value
Raise == [raised |-> TRUE, value |-> {}]

Return(value) == [raised |-> FALSE, value |-> value]

\* the try body of one batch: generate() raises; payload.get raises on JSON
\* that is not an object; the for loop raises on decisions that cannot be
\* iterated; else the loop completes
BatchBody(review_pairs, batch_start, batch_size, reply) ==
    IF reply.kind \in {"raise", "array", "no_list"} THEN Raise
    ELSE Return(ConfirmedByReply(review_pairs, batch_start, batch_size, reply))

\* except Exception as exc: logger.warning(...)
ExceptException(result) == IF result.raised THEN Return({}) ELSE result

\* one iteration of the loop over the batches
BatchAttempt(review_pairs, batch_start, batch_size, reply) ==
    ExceptException(BatchBody(review_pairs, batch_start, batch_size, reply))

\* a loop that is left after its first iteration
FirstBatchOnly(total, batch_size) == <<0>>

\* range(0, len(review_pairs), batch_size)
BatchStarts(total, batch_size) ==
    [k \in 1..((total + batch_size - 1) \div batch_size) |-> (k - 1) * batch_size]

(***************************************************************************)
(* The engine instance and its calls                                       *)
(*   learned    self._learned_acronyms                                     *)
(*   synonyms   self._disambiguator._canonical_map                         *)
(*   rules      self._homonym_context_rules                                *)
(*   config     self.llm and the thresholds                                *)
(*   tasks      the resolve_entities_async calls suspended at the judge    *)
(*   last       the most recently returned call: arguments and result      *)
(***************************************************************************)
VARIABLES learned, synonyms, rules, config, tasks, last

vars == <<learned, synonyms, rules, config, tasks, last>>

Slots == {1, 2}

IdleTask == [pc |-> "idle"]

AllIdle == \A s \in Slots : tasks[s].pc = "idle"

\* EntityResolutionService(...): a new engine with one of the given settings
EngineInit(configs) ==
    /\ learned = <<>>
    /\ synonyms = DefaultCanonicalMap
    /\ rules = HomonymContextRules
    /\ config \in configs
    /\ tasks = [s \in Slots |-> IdleTask]
    /\ last = [op |-> "none"]

\* canonicalize_name(name) returning c
CanonicalizeReturn(name, c) ==
    /\ learned' = c.acronyms
    /\ last' = [op |-> "canonicalize", before |-> learned, name |-> name,
                canonical |-> c.canonical]
    /\ UNCHANGED <<synonyms, rules, config, tasks>>

\* canonicalize_name(name)
Canonicalize(name) ==
    CanonicalizeReturn(name, CanonicalizeName(learned, synonyms, name))

\* what a resolve call that ended leaves in last
\* asked: the batches sent to the judge, each with what the judge did
\* raised: an exception left the call, and the caller got no result
\* inputs_after: the entities of the records (the input entities with a
\* canonical name) as they are when the call ends
Returned(op, before, use, from_output, asked, out) ==
    [op |-> op, raised |-> MergeRaises(out.records), before |-> before, use |-> use,
     from_output |-> from_output, asked |-> asked, out |-> out,
     inputs_after |-> EntitiesAfterMerge(out.records, out.alias_map)]

\* resolve_entities(entities) returning r
ResolveReturn(r, from_output) ==
    /\ learned' = r.acronyms
    /\ last' = Returned("resolve", learned, FALSE, from_output, <<>>, r.out)
    /\ UNCHANGED <<synonyms, rules, config, tasks>>

\* resolve_entities(entities)
ResolveCall(entities, reversed, from_output) ==
    ResolveReturn(ResolveEntities(learned, synonyms, rules, config, entities, reversed),
                  from_output)

Resolve(entities, reversed) == ResolveCall(entities, reversed, FALSE)

\* resolve_entities(resolved) on the entities the last call returned
ResolveOutput(reversed) ==
    /\ last.op \in {"resolve", "resolve_async"}
    /\ ~last.from_output
    /\ AllIdle
    /\ ResolveCall(last.out.resolved, reversed, TRUE)

\* resolve_entities_async from uncertain_pairs on: its return when there is
\* nothing to review, else the suspension at the first await of the judge
AsyncReview(slot, entities, use_llm_confirmation, reversed, records, name_stats, uncertain_pairs) ==
    IF uncertain_pairs = <<>>
    THEN /\ last' = Returned("resolve_async", learned, use_llm_confirmation, FALSE, <<>>,
                        Outcome(config, entities, records, name_stats, <<>>, {},
                                reversed, TRUE))
         /\ UNCHANGED tasks
    ELSE /\ tasks' = [tasks EXCEPT ![slot] =
               [pc |-> "await",
                entities |-> entities,
                use |-> use_llm_confirmation,
                before |-> learned,
                records |-> records,
                name_stats |-> name_stats,
                uncertain_pairs |-> uncertain_pairs,
                batch_start |-> 0,
                confirmed |-> {},
                asked |-> <<>>,
                reversed |-> reversed]]
         /\ UNCHANGED last

\* resolve_entities_async from name_stats on
AsyncNamed(slot, entities, use_llm_confirmation, reversed, records, name_stats) ==
    AsyncReview(slot, entities, use_llm_confirmation, reversed, records, name_stats,
                UncertainPairs(config, NameKeys(name_stats), use_llm_confirmation))

\* a call that keeps what it learned to itself
AsyncBuiltUnlearned(slot, entities, use_llm_confirmation, reversed, built) ==
    /\ built = built
    /\ UNCHANGED learned
    /\ AsyncNamed(slot, entities, use_llm_confirmation, reversed, built.records,
                  BuildNameStats(built.records))

\* resolve_entities_async after _build_records
AsyncBuilt(slot, entities, use_llm_confirmation, reversed, built) ==
    /\ built = built
    /\ learned' = built.acronyms
    /\ AsyncNamed(slot, entities, use_llm_confirmation, reversed, built.records,
                  BuildNameStats(built.records))

\* resolve_entities_async(entities, use_llm_confirmation) up to its first await
\* of the judge, or to its return when the judge is not consulted
AsyncBegin(slot, entities, use_llm_confirmation, reversed) ==
    /\ tasks[slot].pc = "idle"
    /\ UNCHANGED <<synonyms, rules, config>>
    /\ IF entities = <<>>
       THEN /\ last' = Returned("resolve_async", learned, use_llm_confirmation, FALSE,
                           <<>>, EmptyOutcome)
            /\ UNCHANGED <<learned, tasks>>
       ELSE AsyncBuilt(slot, entities, use_llm_confirmation, reversed,
                       BuildRecords(learned, synonyms, rules, entities))

\* the judge answers the batch a suspended call awaits: the rest of that loop
\* iteration, then the next await or the rest of resolve_entities_async
JudgeReply(slot, reply) ==
    LET t == tasks[slot]
        attempt == BatchAttempt(t.uncertain_pairs, t.batch_start,
                                config.llm_batch_size, reply)
        confirmed == t.confirmed \cup attempt.value
        asked == Append(t.asked, [batch_start |-> t.batch_start, reply |-> reply])
        later == {b \in Range(BatchStarts(Len(t.uncertain_pairs), config.llm_batch_size)) :
                     b > t.batch_start}
    IN /\ t.pc = "await"
       /\ UNCHANGED <<learned, synonyms, rules, config>>
       /\ IF attempt.raised
          THEN /\ tasks' = [tasks EXCEPT ![slot] = IdleTask]
               /\ last' = [Returned("resolve_async", t.before, t.use, FALSE, asked,
                                    EmptyOutcome) EXCEPT !.raised = TRUE]
          ELSE IF later # {}
          THEN /\ tasks' = [tasks EXCEPT ![slot] =
                     [t EXCEPT !.batch_start = MinOf(later), !.confirmed = confirmed,
                               !.asked = asked]]
               /\ UNCHANGED last
          ELSE /\ tasks' = [tasks EXCEPT ![slot] = IdleTask]
               /\ last' = Returned("resolve_async", t.before, t.use, FALSE, asked,
                              Outcome(config, t.entities, t.records, t.name_stats,
                                      t.uncertain_pairs, confirmed, t.reversed, TRUE))

\* no resolution call has been made yet
Warm == last.op \in {"none", "canonicalize"} /\ AllIdle

(***************************************************************************)
(* Inputs                                                                  *)
(***************************************************************************)
MaxLen == 2

\* the lists over pool of length at most n
RECURSIVE ListsUpTo(_, _)
ListsUpTo(pool, n) ==
    IF n = 0 THEN {<<>>}
    ELSE LET shorter == ListsUpTo(pool, n - 1)
         IN shorter \cup {Append(l, e) : l \in shorter, e \in pool}

Concept(name, definition, confidence, source) ==
    ExtractedEntity("Concept", name, definition, "", confidence, source, <<>>)

NoJudge == ServiceConfig(FALSE, DefaultAutoMerge, DefaultReview, 40, 20)

WithJudge == ServiceConfig(TRUE, DefaultAutoMerge, DefaultReview, 40, 20)

Method(name, definition, confidence, source) ==
    ExtractedEntity("Method", name, definition, "", confidence, source, <<>>)

\* the ids a judge response may mark as the same concept: p1 .. p<MaxIds>
MaxIds == 2

Replies ==
    {JudgeResponse("raise", {}, {}), JudgeResponse("text", {}, {})}
    \cup {JudgeResponse("decisions", ids, {}) : ids \in SUBSET (1..MaxIds)}

ResolveOps == {"resolve", "resolve_async"}

\* the value of a str property of a resolved entity, "" when absent
PropertyStr(entity, name) == DictGet(entity.properties, name, PStr("")).s

(***************************************************************************)
(* Homonyms and blocking: a new engine, names it may canonicalize, then    *)
(* one resolution call and the resolution of what that call returned       *)
(***************************************************************************)
SatLogic == Concept("SAT", "boolean satisfiability solver", 90, "p1")

SatEducation == Concept("SAT", "student aptitude exam", 80, "p2")

SatLogicMethod == Method("SAT", "boolean satisfiability solver", 70, "p3")

Gnn == Concept("Graph Neural Network", "", 85, "p4")

Gnns == Concept("Graph Neural Networks", "", 75, "p5")

GnnsMethod == Method("Graph Neural Networks", "", 65, "p6")

HomonymPool == {SatLogic, SatEducation, SatLogicMethod, Gnn, Gnns, GnnsMethod}

\* the lists of at most MaxLen entities, and two longer ones that put one
\* name in two blocks next to a second name in one of them
HomonymInputs ==
    ListsUpTo(HomonymPool, MaxLen)
    \cup {<<Gnn, Gnns, GnnsMethod>>, <<SatLogic, SatEducation, SatLogicMethod>>}

HomonymInit == EngineInit({NoJudge, WithJudge})

HomonymNext ==
    \/ \E e \in HomonymPool : Warm /\ Canonicalize(e.name)
    \/ \E entities \in HomonymInputs, reversed \in BOOLEAN :
          Warm /\ Resolve(entities, reversed)
    \/ \E entities \in HomonymInputs, use \in BOOLEAN, reversed \in BOOLEAN :
          Warm /\ AsyncBegin(1, entities, use, reversed)
    \/ \E reply \in Replies : JudgeReply(1, reply)
    \/ \E reversed \in BOOLEAN : ResolveOutput(reversed)

SpecHomonym == HomonymInit /\ [][HomonymNext]_vars

MentionsLogic(e) == Contains(StrLower(e.definition), "boolean satisfiability solver")

MentionsEducation(e) == Contains(StrLower(e.definition), "student aptitude exam")

\* two entities of one type, both named SAT, one defined by each wording
HomonymPair(entities) ==
    /\ Len(entities) = 2
    /\ entities[1].name = "sat" /\ entities[2].name = "sat"
    /\ entities[1].entity_type = entities[2].entity_type
    /\ \E i, j \in {1, 2} :
          i # j /\ MentionsLogic(entities[i]) /\ MentionsEducation(entities[j])

MinSimilarities == {<<0, 1>>, DefaultReview, DefaultAutoMerge}

MaxPairsChoices == {<<>>, <<1>>, <<40>>}

SameBlock(left, right) == left[1] = right[1] /\ left[2] = right[2]

GraphGcn == Concept("Graph Convolutional Network (GCN)", "", 90, "p1")

Gcn == Concept("GCN", "", 80, "p2")

GatedGcn == Concept("Gated Convolutional Network (GCN)", "", 70, "p3")

Satisfiability == Concept("Satisfiability (SAT)", "", 60, "p4")

AcronymPool == {GraphGcn, Gcn, GatedGcn, Satisfiability}

\* the lists of at most MaxLen entities, the list in which a second long
\* form of GCN comes between the first long form and the acronym, and the
\* list in which the homonym SAT comes before a long form of it
AcronymInputs ==
    ListsUpTo(AcronymPool, MaxLen)
        \cup {<<GraphGcn, GatedGcn, Gcn>>, <<SatLogic, Satisfiability>>}

Init == EngineInit({NoJudge})

Next ==
    \/ \E e \in AcronymPool : Warm /\ Canonicalize(e.name)
    \/ \E entities \in AcronymInputs : Warm /\ Resolve(entities, FALSE)
    \/ \E entities \in AcronymInputs : Warm /\ AsyncBegin(1, entities, TRUE, FALSE)
    \/ ResolveOutput(FALSE)

Spec == Init /\ [][Next]_vars

\* C3: resolving the entities a call returned, on the same engine, merges
\* nothing: merged_count is 0 and resolved_count = raw_count = their number
C3_Idempotence ==
    (last.op \in ResolveOps /\ last.from_output)
    => /\ last.out.stats.merged_entities = 0
       /\ last.out.stats.resolved_entities = last.out.stats.raw_entities
       /\ last.out.stats.raw_entities = Len(last.out.entities)

GraphLong == "graph convolutional network"

\* the name teaches the acronym GCN a long form other than GraphLong
Reteaches(name) ==
    LET acr == LearnAcronymMapping(<<>>, name).acronyms
    IN "gcn" \in DOMAIN acr /\ acr["gcn"] # GraphLong

IsGraphGcn(e) == e.name = "graph convolutional network (gcn)"

IsGcn(e) == e.name = "gcn"

\* the resolved entity that record i of the last call went into
ResolvedOf(i) ==
    MergedKey(last.out.records[i], last.out.alias_map)

\* C4 as stated: in one call, an entity named "Graph Convolutional Network
\* (GCN)" and a later entity of the same type named "GCN" get the same NameKey
C4_AsStated ==
    (last.op \in ResolveOps /\ Len(last.out.records) = Len(last.out.entities))
    => \A i, j \in DOMAIN last.out.entities :
          (/\ i < j
           /\ IsGraphGcn(last.out.entities[i])
           /\ IsGcn(last.out.entities[j])
           /\ last.out.entities[i].entity_type = last.out.entities[j].entity_type)
          => KeyOf(last.out.records[i]) = KeyOf(last.out.records[j])

\* C4: an entity named "Graph Convolutional Network (GCN)" and an entity of
\* the same type named "GCN" processed later get the same NameKey and go into
\* the same resolved entity, provided no name processed between the two
\* teaches the acronym GCN another long form: later in the same list, or in a
\* later call whose engine still maps gcn to "graph convolutional network",
\* or in a later canonicalize_name("gcn")
C4_RoundTrip ==
    /\ (last.op \in ResolveOps /\ Len(last.out.records) = Len(last.out.entities))
       => LET entities == last.out.entities
              records == last.out.records
              Quiet(lo, hi) == \A k \in lo..hi : ~Reteaches(entities[k].name)
          IN /\ \A i, j \in DOMAIN entities :
                   (/\ i < j
                    /\ IsGraphGcn(entities[i])
                    /\ IsGcn(entities[j])
                    /\ entities[i].entity_type = entities[j].entity_type
                    /\ Quiet(i + 1, j - 1))
                   => /\ KeyOf(records[i]) = KeyOf(records[j])
                      /\ ResolvedOf(i) = ResolvedOf(j)
             /\ \A i \in DOMAIN entities :
                   IsGraphGcn(entities[i])
                   => KeyOf(records[i])
                          = <<entities[i].entity_type, "__default__", GraphLong>>
             /\ \A j \in DOMAIN entities :
                   (/\ "gcn" \in DOMAIN last.before
                    /\ last.before["gcn"] = GraphLong
                    /\ IsGcn(entities[j])
                    /\ Quiet(1, j - 1))
                   => KeyOf(records[j])
                          = <<entities[j].entity_type, "__default__", GraphLong>>
    /\ (/\ last.op = "canonicalize"
        /\ "gcn" \in DOMAIN last.before
        /\ last.before["gcn"] = GraphLong
        /\ last.name = "gcn")
       => last.canonical = GraphLong

\* both orders of time: the acronym after its long form in one list, and the
\* acronym in a call after the one that taught it
C4_Witness ==
    /\ last.op \in ResolveOps
    /\ "gcn" \in DOMAIN last.before
    /\ last.before["gcn"] = GraphLong
    /\ Len(last.out.entities) = 2
    /\ IsGraphGcn(last.out.entities[1])
    /\ IsGcn(last.out.entities[2])
    /\ Len(last.out.resolved) = 1

\* the acronym keys a name teaches an engine that has learned nothing
KeysTaughtBy(name) == DOMAIN LearnAcronymMapping(<<>>, name).acronyms

\* C9: no step removes a key from the learned-acronym map; what
\* canonicalize_name learns from a name is in the map the next call starts
\* from; and no step changes the synonym table, the homonym rules or the
\* thresholds
C9_LearnedOnlyGrows ==
    [][/\ DOMAIN learned \subseteq DOMAIN learned'
       /\ UNCHANGED <<synonyms, rules, config>>
       /\ (last' # last /\ last'.op = "canonicalize")
          => KeysTaughtBy(last'.name) \subseteq DOMAIN learned'
       /\ (last' # last /\ last'.op = "resolve")
          => /\ last'.before = learned
             /\ \A i \in DOMAIN last'.out.entities :
                   KeysTaughtBy(last'.out.entities[i].name) \subseteq DOMAIN learned']_vars

\* a call on an engine that had learned one acronym taught it a second one
C9_Witness ==
    /\ last.op \in ResolveOps
    /\ last.before # <<>>
    /\ Cardinality(DOMAIN learned) > Cardinality(DOMAIN last.before)

(***************************************************************************)
(* Synonyms: an engine with or without a judge, names it may canonicalize, *)
(* then one resolution call and the resolution of what that call returned  *)
(***************************************************************************)
MachineLearning == Concept("machine learning", "", 90, "p1")

Ml == Concept("ML", "", 80, "p2")

DeepLearning == Concept("deep learning", "", 70, "p3")

Ai == Concept("AI", "", 60, "p4")

ArtificialIntelligence == Concept("artificial intelligence", "", 50, "p5")

MetaLearning == Concept("Meta Learning (ML)", "", 40, "p6")

MachineLearningMachine == Concept("machine learning machine", "", 95, "p7")

Llm == Concept("LLM", "", 30, "p8")

LargeLanguageModels == Concept("large language models", "", 20, "p9")

LargeLanguageModeling == Concept("large language modeling", "", 85, "p10")

SynonymPool == {MachineLearning, Ml, DeepLearning, Ai, ArtificialIntelligence, MetaLearning}

\* the lists of at most MaxLen entities, the end-to-end example, a list with
\* a name that is merged with "machine learning" without review, and two
\* with a name close enough to "large language model" for a judge to be asked
SynonymInputs ==
    ListsUpTo(SynonymPool, MaxLen)
        \cup {<<MachineLearning, Ml, DeepLearning>>,
              <<MachineLearning, Ml, MachineLearningMachine, MachineLearningMachine>>,
              <<Llm, LargeLanguageModels, LargeLanguageModeling>>,
              <<Llm, LargeLanguageModeling>>}

SynonymInit == EngineInit({NoJudge, WithJudge})

SynonymNext ==
    \/ \E e \in {Ml, MetaLearning} : Warm /\ Canonicalize(e.name)
    \/ \E entities \in SynonymInputs : Warm /\ Resolve(entities, FALSE)
    \/ \E entities \in SynonymInputs, use \in BOOLEAN :
           Warm /\ AsyncBegin(1, entities, use, FALSE)
    \/ \E reply \in Replies : JudgeReply(1, reply)
    \/ ResolveOutput(FALSE)

SpecSynonym == SynonymInit /\ [][SynonymNext]_vars

\* properties["aliases"] of a resolved entity, <<>> when absent
Aliases(entity) == DictGet(entity.properties, "aliases", PList(<<>>)).l

AliasCount(entity) == DictGet(entity.properties, "alias_count", PInt(0)).n

\* the resolved entities of the last call with the given type and alias
ResolvedWithAlias(type, alias) ==
    {r \in Range(last.out.resolved) :
        r.entity_type = type /\ alias \in Range(Aliases(r))}

\* entities i and j of the last call have the same type and two names the
\* synonym table maps to one canonical string that has no homonym rule
Synonymous(i, j) ==
    LET left == last.out.entities[i]
        right == last.out.entities[j]
        canonical == GetCanonicalName(synonyms, left.name)
    IN /\ left.entity_type = right.entity_type
       /\ left.name # right.name
       /\ DictHas(synonyms, left.name) \/ DictHas(synonyms, right.name)
       /\ canonical = GetCanonicalName(synonyms, right.name)
       /\ ~DictHas(rules, canonical)

IsEndToEndExample(entities) ==
    /\ Len(entities) = 3
    /\ \A i \in 1..3 : entities[i].entity_type = "Concept"
    /\ entities[1].name = "machine learning"
    /\ entities[2].name = StrLower("ML")
    /\ entities[3].name = "deep learning"

\* C5 as stated: on a new engine the end-to-end example gives 2 resolved
\* entities and merged_count 1, "machine learning" lists both raw forms
\* "machine learning" and "ML" as aliases and "deep learning" has no aliases
C5_AsStated ==
    (/\ last.op \in ResolveOps
     /\ last.before = <<>>
     /\ IsEndToEndExample(last.out.entities))
    => /\ Len(last.out.resolved) = 2
       /\ last.out.stats.merged_entities = 1
       /\ last.out.resolved[1].name = "machine learning"
       /\ {"machine learning", "ML"} \subseteq Range(Aliases(last.out.resolved[1]))
       /\ last.out.resolved[2].name = "deep learning"
       /\ Aliases(last.out.resolved[2]) = <<>>

\* the call started with an empty learned-acronym map and learned nothing
LearnedNothing == last.before = <<>> /\ learned = <<>>

\* C5: on an engine that has learned no acronym, entities of the same type
\* whose names the synonym table maps to one canonical string, with no
\* ambiguity rule, go into exactly one resolved entity, whose alias list holds
\* both names as the entities store them (lower case) and whose name is that
\* canonical string unless another NameKey was merged with theirs; a name
\* whose NameKey no other entity shares and nothing is merged with stays a
\* separate resolved entity whose alias list is its own name alone; and the
\* input ["machine learning", "ML", "deep learning"] gives 2 resolved
\* entities, merged_count 1, aliases "machine learning", "ml" and
\* "deep learning"
C5_SynonymMerge ==
    (/\ last.op \in ResolveOps
     /\ LearnedNothing
     /\ Len(last.out.records) = Len(last.out.entities))
    => LET entities == last.out.entities
           records == last.out.records
           resolved == last.out.resolved
       IN /\ \A i, j \in DOMAIN entities :
                Synonymous(i, j)
                => /\ ResolvedOf(i) = ResolvedOf(j)
                   /\ KeyOf(records[i])[3] = GetCanonicalName(synonyms, entities[i].name)
                   /\ Cardinality(ResolvedWithAlias(entities[i].entity_type,
                                                    entities[i].name)) = 1
                   /\ \A r \in ResolvedWithAlias(entities[i].entity_type, entities[i].name) :
                         /\ entities[j].name \in Range(Aliases(r))
                         /\ (\A c \in Range(last.out.clusters) : KeyOf(records[i]) \in Range(c) => Len(c) = 1)
                            => r.name = GetCanonicalName(synonyms, entities[i].name)
          /\ \A k \in DOMAIN entities :
                (/\ \A i \in DOMAIN entities : ResolvedOf(i) = ResolvedOf(k) => i = k)
                => \E r \in Range(resolved) :
                      /\ r.entity_type = entities[k].entity_type
                      /\ r.name = records[k].canonical_name
                      /\ Aliases(r) = <<entities[k].name>>
                      /\ AliasCount(r) = 1
          /\ IsEndToEndExample(entities)
             => /\ Len(resolved) = 2
                /\ last.out.stats.merged_entities = 1
                /\ resolved[1].name = "machine learning"
                /\ Aliases(resolved[1]) = <<"machine learning", "ml">>
                /\ resolved[2].name = "deep learning"
                /\ Aliases(resolved[2]) = <<"deep learning">>

\* the end-to-end example resolved by an engine with a judge
C5_Witness ==
    /\ last.op \in ResolveOps
    /\ LearnedNothing
    /\ config.llm
    /\ IsEndToEndExample(last.out.entities)
    /\ Len(last.out.resolved) = 2
    /\ Synonymous(1, 2)

(***************************************************************************)
(* Similarity: _similarity_score on pairs of normalized names              *)
(***************************************************************************)
MaxStr == 4

NameAlphabet == {"a", "b", " "}

RECURSIVE StringsUpTo(_)
StringsUpTo(n) ==
    IF n = 0 THEN {""}
    ELSE StringsUpTo(n - 1)
             \cup {s \o c : s \in {t \in StringsUpTo(n - 1) : Len(t) = n - 1},
                            c \in NameAlphabet}

\* the names of at most MaxStr characters that _normalize_surface leaves alone
SimilarityNames == {s \in StringsUpTo(MaxStr) : NormalizeSurface(s) = s}

\* the one call self._similarity_score(left, right) of a run
Similarity(left, right) ==
    /\ last.op = "none"
    /\ last' = [op |-> "similarity", left |-> left, right |-> right,
                score |-> SimilarityScore(left, right)]
    /\ UNCHANGED <<learned, synonyms, rules, config, tasks>>

SimilarityInit == EngineInit({NoJudge})

SimilarityNext == \E left \in SimilarityNames, right \in SimilarityNames : Similarity(left, right)

SpecSimilarity == SimilarityInit /\ [][SimilarityNext]_vars

\* C6: the score of (a, b) is the score of (b, a), so the pairs that
\* _generate_candidate_pairs would accept at any threshold are the same
\* whichever of the two names is taken as left
C6_Symmetry ==
    last.op = "similarity"
    => /\ last.score = SimilarityScore(last.right, last.left)
       /\ \A min_similarity \in MinSimilarities :
             FracGeq(last.score, min_similarity)
                 <=> FracGeq(SimilarityScore(last.right, last.left), min_similarity)

(***************************************************************************)
(* Judge review: an engine with a judge and a wide review band, names it   *)
(* may canonicalize, then one resolution call (the judge answering batch   *)
(* by batch) and the resolution of what that call returned                 *)
(***************************************************************************)
GraphNetwork == Concept("graph network", "", 60, "p7")

DeepNeuralNetwork == Concept("deep neural network", "", 55, "p8")

GraphNeuralNet == Concept("graph neural net", "", 50, "p9")

NeuralGraphNetwork == Concept("neural graph network", "", 45, "p10")

Blank == Concept("  ", "", 40, "p11")

\* six names of which every two score between 0.45 and 0.95
Corpus == <<Gnn, Gnns, GraphNetwork, DeepNeuralNetwork, GraphNeuralNet, NeuralGraphNetwork>>

JudgePool == {Gnn, Gnns, SatLogic, SatEducation, Blank}

\* the lists of at most MaxLen entities, the beginnings of the corpus, and a
\* list with a pair that is merged without review
JudgeInputs ==
    ListsUpTo(JudgePool, MaxLen)
        \cup {SubSeq(Corpus, 1, n) : n \in 3..Len(Corpus)}
        \cup {<<MachineLearning, MachineLearningMachine, Gnn, Gnns, Blank>>}

\* review from 0.45 on, one batch of up to 20 pairs
WideReview == ServiceConfig(TRUE, DefaultAutoMerge, <<9, 20>>, 40, 20)

\* the ids a judge response may mark: p1 .. p<MaxPairIds>
MaxPairIds == 16

JudgeReplies ==
    Replies \cup {JudgeResponse("decisions", 1..n, {}) : n \in 1..MaxPairIds}

JudgeInit == EngineInit({WideReview})

JudgeNext ==
    \/ Warm /\ Canonicalize(Gnn.name)
    \/ \E entities \in JudgeInputs : Warm /\ Resolve(entities, FALSE)
    \/ \E entities \in JudgeInputs, use \in BOOLEAN, reversed \in BOOLEAN :
           Warm /\ AsyncBegin(1, entities, use, reversed)
    \/ \E reply \in JudgeReplies : JudgeReply(1, reply)
    \/ \E reversed \in BOOLEAN : ResolveOutput(reversed)

SpecJudge == JudgeInit /\ [][JudgeNext]_vars

\* the pairs of the last call that were submitted to the judge and confirmed
Audited ==
    {i \in DOMAIN last.out.uncertain_pairs :
        <<last.out.uncertain_pairs[i][1], last.out.uncertain_pairs[i][2]>>
            \in last.out.confirmed_pairs}

\* sample is the audit record of the submitted pair
SampleOf(sample, pair) ==
    /\ sample.entity_type = pair[1][1]
    /\ sample.context_bucket = pair[1][2]
    /\ sample.left = pair[1][3]
    /\ sample.right = pair[2][3]
    /\ sample.similarity = Round3(pair[3])

\* C7: after every resolve_entities_async call each entry of
\* potential_false_merge_samples is a pair that was submitted to the judge and
\* confirmed by it, no pair is listed twice, the similarities are in
\* non-decreasing order, and there are at most 10 entries (10, or all the
\* confirmed pairs when they are fewer)
C7_AuditSample ==
    last.op = "resolve_async"
    => LET samples == last.out.stats.potential_false_merge_samples
       IN /\ Len(samples) <= 10
          /\ Len(samples) = Min2(10, Cardinality(Audited))
          /\ \A i \in DOMAIN samples :
                \E n \in Audited : SampleOf(samples[i], last.out.uncertain_pairs[n])
          /\ \A i, j \in DOMAIN samples :
                i < j => /\ samples[i].similarity <= samples[j].similarity
                         /\ samples[i] # samples[j]

\* more than 10 pairs were confirmed and 10 are listed
C7_Witness ==
    /\ last.op = "resolve_async"
    /\ Cardinality(Audited) > 10
    /\ Len(last.out.stats.potential_false_merge_samples) = 10
    /\ \E i, j \in 1..10 :
          last.out.stats.potential_false_merge_samples[i].similarity
              < last.out.stats.potential_false_merge_samples[j].similarity

\* C8: the stats of every resolve_entities and resolve_entities_async call
\* have raw_entities = the length of the input list, resolved_entities = the
\* length of the returned list, 0 <= resolved_entities <= raw_entities,
\* merged_entities = raw_entities - resolved_entities and
\* canonicalization_rate = merged_entities / raw_entities, 0 for an empty list
C8_StatsArithmetic ==
    last.op \in ResolveOps
    => LET stats == last.out.stats
       IN /\ stats.raw_entities = Len(last.out.entities)
          /\ stats.resolved_entities = Len(last.out.resolved)
          /\ 0 <= stats.resolved_entities
          /\ stats.resolved_entities <= stats.raw_entities
          /\ stats.merged_entities = stats.raw_entities - stats.resolved_entities
          /\ stats.raw_entities = 0 => stats.canonicalization_rate = <<0, 1>>
          /\ stats.raw_entities > 0
             => stats.canonicalization_rate[1] * stats.raw_entities
                    = stats.merged_entities * stats.canonicalization_rate[2]

\* a call with a judge returned fewer entities than it was given
C8_Witness ==
    /\ last.op = "resolve_async"
    /\ last.out.stats.llm_pairs_confirmed > 0
    /\ last.out.stats.raw_entities >= 3
    /\ last.out.stats.merged_entities > 0
    /\ last.out.stats.resolved_entities > 1

\* the context bucket a resolved entity records, "__default__" when none
BucketOf(entity) ==
    IF DictHas(entity.properties, "resolution_context_bucket")
    THEN PropertyStr(entity, "resolution_context_bucket")
    ELSE "__default__"

\* the resolved entity is the one of the cluster
EntityOfCluster(entity, cluster) ==
    /\ entity.entity_type = cluster[1][1]
    /\ BucketOf(entity) = cluster[1][2]
    /\ entity.name = DictGet(last.out.alias_map, cluster[1], "")

\* C10: after clustering every NameKey of the call is in exactly one cluster,
\* no cluster is empty, the keys of the clusters are those of the call, and
\* the call returns exactly one resolved entity per cluster: the records of
\* one cluster go into one entity and those of two clusters into two
C10_ClusterPartition ==
    last.op \in ResolveOps
    => LET clusters == last.out.clusters
           records == last.out.records
           resolved == last.out.resolved
           ClusterOf(key) == {c \in DOMAIN clusters : key \in Range(clusters[c])}
       IN /\ \A key \in Range(last.out.name_keys) : Cardinality(ClusterOf(key)) = 1
          /\ \A c \in DOMAIN clusters :
                /\ clusters[c] # <<>>
                /\ Range(clusters[c]) \subseteq Range(last.out.name_keys)
                /\ \A m, n \in DOMAIN clusters[c] : clusters[c][m] = clusters[c][n] => m = n
          /\ {KeyOf(records[i]) : i \in DOMAIN records} = Range(last.out.name_keys)
          /\ Len(resolved) = Len(clusters)
          /\ \A c \in DOMAIN clusters :
                Cardinality({r \in DOMAIN resolved :
                                EntityOfCluster(resolved[r], clusters[c])}) = 1
          /\ \A i, j \in DOMAIN records :
                ResolvedOf(i) = ResolvedOf(j)
                    <=> ClusterOf(KeyOf(records[i])) = ClusterOf(KeyOf(records[j]))

\* clusters of one, of two and of more NameKeys, some merged by the judge
C10_Witness ==
    /\ last.op = "resolve_async"
    /\ last.out.confirmed_pairs # {}
    /\ \E c \in DOMAIN last.out.clusters : Len(last.out.clusters[c]) = 1
    /\ \E c \in DOMAIN last.out.clusters : Len(last.out.clusters[c]) >= 3
    /\ Len(last.out.clusters) >= 2

(***************************************************************************)
(* Batches: an engine whose judge reviews at most three pairs, two to a    *)
(* batch (or at most one pair, or an engine without a judge); names it may *)
(* canonicalize, then one resolution call, the judge answering each batch  *)
(* in any of the ways a judge can                                          *)
(***************************************************************************)
AbCd == Concept("ab cd", "", 80, "q1")

AbCe == Concept("ab ce", "", 70, "q2")

AbCf == Concept("ab cf", "", 60, "q3")

AbCg == Concept("ab cg", "", 50, "q4")

AbCdAb == Concept("ab cd ab", "", 40, "q5")

AbCdAbCd == Concept("ab cd ab cd", "", 30, "q6")

\* as sure as AbCd
AbCdAbSure == Concept("ab cd ab", "", 80, "q7")

\* "ab cd" and "ab cd ab" score 0.973, "ab cd ab" and "ab cd ab cd" 1.0: they
\* are merged without review; "ab cd" and "ab cd ab cd" score 0.894 and every
\* other two of the names 0.488 or 0.59: they are for the judge
\* ExtractedEntity(entity_type, name) with every other field at its default
Bare(name) == ExtractedEntity("Concept", name, "", "", 0, "", <<>>)

\* names that are empty, or of spaces and punctuation only
MalformedNames == {"", "  ", "()", "- -"}

BatchInputs ==
    {<<>>, <<AbCd>>, <<AbCd, AbCe>>, <<AbCd, AbCe, AbCf>>, <<AbCd, AbCdAb, AbCe>>,
     <<AbCd, AbCe, AbCf, AbCg>>, <<AbCd, AbCe, AbCf, AbCdAb>>,
     <<AbCd, AbCdAb, AbCdAbCd>>, <<AbCe, AbCd, AbCe>>, <<AbCd, AbCdAbSure>>,
     <<Bare("")>>, <<Bare("()"), Bare("  ")>>, <<Bare("()"), AbCd>>,
     <<AbCd, Bare("- -"), AbCe, Bare(""), AbCd>>}

SmallBatches == ServiceConfig(TRUE, DefaultAutoMerge, <<9, 20>>, 3, 2)

\* an engine whose judge reviews at most one pair
OneCheck == ServiceConfig(TRUE, DefaultAutoMerge, <<9, 20>>, 1, 2)

\* the ids a judge response may name: p1 .. p<MaxBatchIds>, and p<n> for an
\* n no batch has
MaxBatchIds == 3

BatchReplies ==
    {JudgeResponse(kind, {}, {}) : kind \in {"raise", "text", "array", "no_list"}}
        \cup {JudgeResponse("decisions", ids, {}) : ids \in SUBSET (1..MaxBatchIds)}
        \cup {JudgeResponse("decisions", {1, MaxBatchIds + 5}, {})}
        \cup {JudgeResponse("decisions", {}, {n}) : n \in 1..MaxBatchIds}

BatchInit == EngineInit({SmallBatches, OneCheck, NoJudge})

BatchNext ==
    \/ \E name \in MalformedNames \cup {AbCd.name} : Warm /\ Canonicalize(name)
    \/ \E entities \in BatchInputs : Warm /\ Resolve(entities, FALSE)
    \/ \E entities \in BatchInputs, use \in BOOLEAN :
           Warm /\ AsyncBegin(1, entities, use, FALSE)
    \/ \E reply \in BatchReplies : JudgeReply(1, reply)

SpecBatches == BatchInit /\ [][BatchNext]_vars

\* the judge call of a batch raised, or its response held no decisions list
JudgeFailed(reply) == reply.kind # "decisions"

\* the pairs submitted in the batch that starts after batch_start pairs
PairsOfBatch(batch_start) ==
    {<<last.out.uncertain_pairs[n][1], last.out.uncertain_pairs[n][2]>> :
        n \in {m \in DOMAIN last.out.uncertain_pairs :
                  /\ m > batch_start
                  /\ m <= batch_start + config.llm_batch_size}}

\* the two NameKeys are in one cluster of the last call
SameCluster(left, right) ==
    \E c \in DOMAIN last.out.clusters :
        {left, right} \subseteq Range(last.out.clusters[c])

\* C11: a resolve_entities_async call returns a normal result whatever the
\* judge did; it sent the batches of its review pairs one after the other,
\* each exactly once; no pair of a batch whose judge call raised or whose
\* response could not be parsed is confirmed; and every pair another batch's
\* response marked as the same is confirmed and its two keys are in one
\* cluster
C11_BatchFailureNonFatal ==
    last.op = "resolve_async"
    => LET asked == last.asked
           pairs == last.out.uncertain_pairs
           size == config.llm_batch_size
       IN /\ ~last.raised
          /\ last.out.stats.llm_pairs_reviewed = Len(pairs)
          /\ last.out.stats.resolved_entities = Len(last.out.resolved)
          /\ (Len(asked) - 1) * size < Len(pairs) \/ asked = <<>>
          /\ Len(asked) * size >= Len(pairs)
          /\ \A k \in DOMAIN asked : asked[k].batch_start = (k - 1) * size
          /\ \A k \in DOMAIN asked :
                JudgeFailed(asked[k].reply)
                    => PairsOfBatch(asked[k].batch_start) \cap last.out.confirmed_pairs = {}
          /\ \A k \in DOMAIN asked, n \in DOMAIN pairs :
                (/\ ~JudgeFailed(asked[k].reply)
                 /\ n \in asked[k].reply.same_ids
                 /\ <<pairs[n][1], pairs[n][2]>> \in PairsOfBatch(asked[k].batch_start))
                    => /\ <<pairs[n][1], pairs[n][2]>> \in last.out.confirmed_pairs
                       /\ SameCluster(pairs[n][1], pairs[n][2])

\* of two batches the first failed and a pair of the second was confirmed and
\* merged
C11_Witness ==
    /\ last.op = "resolve_async"
    /\ Len(last.asked) = 2
    /\ last.asked[1].reply.kind \in {"raise", "text"}
    /\ last.asked[2].reply.kind = "decisions"
    /\ last.out.confirmed_pairs # {}
    /\ last.out.confirmed_pairs \subseteq PairsOfBatch(last.asked[2].batch_start)
    /\ last.out.stats.merged_entities > 0

\* the numbers n of the pairs submitted in the batch that starts after
\* batch_start pairs: their ids are p<n>
IdsOfBatch(batch_start) ==
    {n \in DOMAIN last.out.uncertain_pairs :
        n > batch_start /\ n <= batch_start + config.llm_batch_size}

\* C12: after a resolve_entities_async call every confirmed pair was
\* submitted in a batch and the response to that batch holds a decision with
\* the id of the pair and same = true; so confirmed is a subset of the
\* submitted pairs and llm_pairs_confirmed <= llm_pairs_reviewed <=
\* max_llm_pair_checks
C12_JudgeBoolean ==
    last.op = "resolve_async"
    => LET pairs == last.out.uncertain_pairs
           stats == last.out.stats
       IN /\ \A pair \in last.out.confirmed_pairs :
                \E k \in DOMAIN last.asked :
                    \E n \in IdsOfBatch(last.asked[k].batch_start) :
                        /\ pair = <<pairs[n][1], pairs[n][2]>>
                        /\ last.asked[k].reply.kind = "decisions"
                        /\ n \in last.asked[k].reply.same_ids
          /\ stats.llm_pairs_confirmed <= stats.llm_pairs_reviewed
          /\ stats.llm_pairs_reviewed <= config.max_llm_pair_checks

(***************************************************************************)
(* Robustness: the engine of the batches, given the lists of the batches   *)
(* (entities without a name, with a name of punctuation only, with no      *)
(* optional field set) and lists with source_paper_ids of other JSON types *)
(***************************************************************************)
\* source_paper_ids given as one str, and as a number
SourcesAsStr ==
    ExtractedEntity("Concept", "ab ce", "", "", 70, "q2",
                    << <<"source_paper_ids", PStr("q7")>> >>)

SourcesAsInt ==
    ExtractedEntity("Concept", "ab cf", "", "", 60, "q3",
                    << <<"source_paper_ids", PInt(7)>> >>)

RobustInputs ==
    BatchInputs
        \cup {<<AbCd, SourcesAsStr>>, <<AbCd, SourcesAsInt>>, <<AbCd, AbCe, SourcesAsInt>>}

RobustNext ==
    \/ Warm /\ Canonicalize(AbCd.name)
    \/ \E entities \in RobustInputs : Warm /\ Resolve(entities, FALSE)
    \/ \E entities \in RobustInputs, use \in BOOLEAN :
           Warm /\ AsyncBegin(1, entities, use, FALSE)
    \/ \E reply \in BatchReplies : JudgeReply(1, reply)

SpecRobust == BatchInit /\ [][RobustNext]_vars

\* C13: every resolve_entities and resolve_entities_async call returns a
\* list of resolved entities with its stats and raises nothing, whatever the
\* entities of its list and whatever the judge did; a batch the judge failed
\* on only leaves its pairs unconfirmed
C13_NoExceptionEscapes ==
    last.op \in ResolveOps
    => /\ ~last.raised
       /\ last.out.stats.raw_entities = Len(last.out.entities)
       /\ last.out.stats.resolved_entities = Len(last.out.resolved)
       /\ \A k \in DOMAIN last.asked :
             JudgeFailed(last.asked[k].reply)
                 => PairsOfBatch(last.asked[k].batch_start) \cap last.out.confirmed_pairs = {}

\* C14: when a resolve_entities or resolve_entities_async call ends, every
\* input entity it made a record of has the entity type, name, definition,
\* description, confidence, source reference and properties it had before
\* the call; the merged properties are in the returned entities only
C14_InputsNotMutated ==
    last.op \in ResolveOps
    => /\ Len(last.inputs_after) = Len(last.out.records)
       /\ \A i \in DOMAIN last.out.records :
             /\ last.inputs_after[i] = last.out.records[i].entity
             /\ \E n \in DOMAIN last.out.entities :
                   last.inputs_after[i] = last.out.entities[n]

\* two entities with properties of their own were merged into one whose
\* properties differ from those of both
C14_Witness ==
    /\ last.op = "resolve"
    /\ last.from_output
    /\ \E i, j \in DOMAIN last.out.records, r \in DOMAIN last.out.resolved :
          /\ i < j
          /\ ResolvedOf(i) = ResolvedOf(j)
          /\ last.out.resolved[r].name = ResolvedOf(i)[3]
          /\ last.out.records[i].entity.properties # <<>>
          /\ last.out.resolved[r].properties # last.out.records[i].entity.properties
          /\ last.out.resolved[r].properties # last.out.records[j].entity.properties
          /\ last.inputs_after[i] = last.out.entities[i]

\* the input entities of the last call whose name is malformed
Dropped == {i \in DOMAIN last.out.entities : last.out.entities[i].name \in MalformedNames}

\* C15: canonicalize_name returns "" for an empty name and for a name that
\* normalizes to empty; an entity with such a name has no record, no NameKey
\* and no cluster key, its name is in no alias list and it is no resolved
\* entity, yet raw_entities counts it, so that raw_entities -
\* resolved_entities is at least the number of such entities
C15_MalformedDropped ==
    /\ (last.op = "canonicalize" /\ last.name \in MalformedNames)
           => last.canonical = "" /\ learned = last.before
    /\ last.op \in ResolveOps
       => LET out == last.out
          IN /\ \A i \in DOMAIN out.records :
                   /\ out.records[i].entity.name \notin MalformedNames
                   /\ out.records[i].canonical_name # ""
             /\ Len(out.records) <= Len(out.entities) - Cardinality(Dropped)
             /\ \A k \in DOMAIN out.name_keys : out.name_keys[k][3] # ""
             /\ \A c \in DOMAIN out.clusters :
                   \A m \in DOMAIN out.clusters[c] : out.clusters[c][m][3] # ""
             /\ \A r \in DOMAIN out.resolved :
                   /\ out.resolved[r].name \notin MalformedNames
                   /\ Range(Aliases(out.resolved[r])) \cap MalformedNames = {}
             /\ out.stats.raw_entities = Len(out.entities)
             /\ out.stats.raw_entities - out.stats.resolved_entities >= Cardinality(Dropped)
             /\ out.stats.merged_entities >= Cardinality(Dropped)

\* a list of five entities, two of them malformed, resolved to two entities
C15_Witness ==
    /\ last.op \in ResolveOps
    /\ Cardinality(Dropped) = 2
    /\ Cardinality(DOMAIN last.out.entities \ Dropped) = 3
    /\ last.out.stats.raw_entities = 5
    /\ last.out.stats.resolved_entities = 2
    /\ last.out.stats.merged_entities = 3

\* what resolve_entities returns for the list of the last call from the
\* engine state that call started in
SyncOfLast ==
    ResolveEntities(last.before, synonyms, rules, config, last.out.entities, FALSE).out

\* C16: resolve_entities never asks the judge; resolve_entities_async asks
\* it not once when use_llm_confirmation is false or the engine has no judge,
\* and then returns the resolved entities and the raw, resolved and merged
\* counts resolve_entities returns for that list from that engine state, with
\* llm_pairs_reviewed = 0 and llm_pairs_confirmed = 0
C16_JudgeOnlyWhenEnabled ==
    /\ \A slot \in Slots :
          tasks[slot].pc = "await" => config.llm /\ tasks[slot].use
    /\ last.op = "resolve"
       => /\ last.asked = <<>>
          /\ last.out.stats.llm_pairs_reviewed = 0
          /\ last.out.stats.llm_pairs_confirmed = 0
    /\ (last.op = "resolve_async" /\ (~last.use \/ ~config.llm))
       => /\ last.asked = <<>>
          /\ last.out.resolved = SyncOfLast.resolved
          /\ last.out.stats.raw_entities = SyncOfLast.stats.raw_entities
          /\ last.out.stats.resolved_entities = SyncOfLast.stats.resolved_entities
          /\ last.out.stats.merged_entities = SyncOfLast.stats.merged_entities
          /\ last.out.stats.llm_pairs_reviewed = 0
          /\ last.out.stats.llm_pairs_confirmed = 0

\* a call on an engine with a judge that was told not to use it, for a list
\* with a pair in the review band
C16_Witness ==
    /\ last.op = "resolve_async"
    /\ config.llm
    /\ ~last.use
    /\ last.asked = <<>>
    /\ UncertainPairs(config, last.out.name_keys, TRUE) # <<>>
    /\ Len(last.out.resolved) >= 2

\* the two NameKeys are a candidate pair (one block, the lesser name on the
\* left, lengths at most 20 apart) that scores auto_merge_threshold or more
AutoAccepted(left, right) ==
    /\ left[1] = right[1]
    /\ left[2] = right[2]
    /\ StrLess(left[3], right[3])
    /\ Len(right[3]) - Len(left[3]) <= 20
    /\ Len(left[3]) - Len(right[3]) <= 20
    /\ FracGeq(SimilarityScore(left[3], right[3]), config.auto_merge_threshold)

\* the accepted pairs of the last call
AcceptedOfLast ==
    {pair \in Range(last.out.name_keys) \X Range(last.out.name_keys) :
        AutoAccepted(pair[1], pair[2])}
        \cup last.out.confirmed_pairs

RECURSIVE LinkedTo(_, _)
\* the keys a chain of pairs leads to from the keys of S
LinkedTo(S, pairs) ==
    IF \E pair \in pairs : (pair[1] \in S) # (pair[2] \in S)
    THEN LinkedTo(S \cup {pair[n] : pair \in {q \in pairs : q[1] \in S \/ q[2] \in S},
                                    n \in 1..2},
                  pairs)
    ELSE S

\* the clusters are the connected components of the graph of the pairs
ComponentsOf(pairs) ==
    \A left, right \in Range(last.out.name_keys) :
        SameCluster(left, right) <=> right \in LinkedTo({left}, pairs)

\* C17: after every resolution call two NameKeys are in the same cluster
\* exactly when a chain of accepted pairs links them, the accepted pairs
\* being every candidate pair that scores auto_merge_threshold or more
\* (whatever max_llm_pair_checks is) and the pairs the judge confirmed
C17_ConnectedComponents ==
    last.op \in ResolveOps => \A accepted \in {AcceptedOfLast} : ComponentsOf(accepted)

\* three keys in one cluster by a chain of two accepted pairs, one accepted
\* on its score and one confirmed by the judge, the ends being no pair
C17_Witness ==
    /\ last.op = "resolve_async"
    /\ \E accepted \in {AcceptedOfLast} :
          \E a, b, c \in Range(last.out.name_keys) :
              /\ {<<a, b>>, <<b, a>>} \cap (accepted \ last.out.confirmed_pairs) # {}
              /\ {<<b, c>>, <<c, b>>} \cap last.out.confirmed_pairs # {}
              /\ {<<a, c>>, <<c, a>>} \cap accepted = {}
              /\ SameCluster(a, c)
    /\ Len(last.out.clusters) >= 2

\* the two NameKeys are a candidate pair that scores in the review band
\* [llm_review_threshold, auto_merge_threshold)
InReviewBand(left, right) ==
    /\ left[1] = right[1]
    /\ left[2] = right[2]
    /\ StrLess(left[3], right[3])
    /\ Len(right[3]) - Len(left[3]) <= 20
    /\ Len(left[3]) - Len(right[3]) <= 20
    /\ FracGeq(SimilarityScore(left[3], right[3]), config.llm_review_threshold)
    /\ FracLess(SimilarityScore(left[3], right[3]), config.auto_merge_threshold)

\* the pairs of the review band of the last call
ReviewBandOfLast ==
    {pair \in Range(last.out.name_keys) \X Range(last.out.name_keys) :
        InReviewBand(pair[1], pair[2])}

\* the pairs the last call submitted to the judge
SubmittedOfLast ==
    {<<last.out.uncertain_pairs[n][1], last.out.uncertain_pairs[n][2]>> :
        n \in DOMAIN last.out.uncertain_pairs}

\* submitted are the highest-scoring min(max_llm_pair_checks, N) of the N
\* pairs of band
HighestOfBand(submitted, band) ==
    /\ submitted \subseteq band
    /\ Cardinality(submitted) = Min2(config.max_llm_pair_checks, Cardinality(band))
    /\ \A p \in submitted, q \in band \ submitted :
          FracGeq(SimilarityScore(p[1][3], p[2][3]), SimilarityScore(q[1][3], q[2][3]))

\* C18: a resolve_entities_async call with a judge and use_llm_confirmation
\* submits to the judge the min(max_llm_pair_checks, N) highest-scoring of
\* the N candidate pairs of the review band; all of them when N <=
\* max_llm_pair_checks, however many pairs score auto_merge_threshold or more
C18_ReviewBandSubmission ==
    (last.op = "resolve_async" /\ last.use /\ config.llm)
        => \A band \in {ReviewBandOfLast} : HighestOfBand(SubmittedOfLast, band)

\* the records of the last call under the NameKey
RecordsOfKey(key) == {i \in DOMAIN last.out.records : KeyOf(last.out.records[i]) = key}

\* (support_count, max_confidence, name_length) of a NameKey of the last call
SelectionTuple(key) ==
    <<Cardinality(RecordsOfKey(key)),
      MaxOf({0} \cup {last.out.records[i].entity.confidence : i \in RecordsOfKey(key)}),
      Len(key[3])>>

\* x >= y lexicographically
TupleGeq(x, y) ==
    \/ x[1] > y[1]
    \/ x[1] = y[1] /\ x[2] > y[2]
    \/ x[1] = y[1] /\ x[2] = y[2] /\ x[3] >= y[3]

\* the member keys of the cluster whose tuple is maximal among its members
MaximalKeys(cluster) ==
    {key \in Range(cluster) :
        \A other \in Range(cluster) : TupleGeq(SelectionTuple(key), SelectionTuple(other))}

\* C19: after every resolution call the resolved entity of every cluster is
\* named by the canonical_name of a member key whose tuple (support count,
\* max confidence, name length) is lexicographically maximal in the cluster
C19_CanonicalSelection ==
    last.op \in ResolveOps
    => \A c \in DOMAIN last.out.clusters :
          \E key \in MaximalKeys(last.out.clusters[c]) :
              /\ \A member \in Range(last.out.clusters[c]) :
                    DictGet(last.out.alias_map, member, "") = key[3]
              /\ \E r \in DOMAIN last.out.resolved :
                    /\ last.out.resolved[r].name = key[3]
                    /\ EntityOfCluster(last.out.resolved[r], last.out.clusters[c])

\* a cluster named after the spelling seen twice although the other spelling
\* is the more confident one
C19_Witness ==
    /\ last.op = "resolve_async"
    /\ \E c \in DOMAIN last.out.clusters :
          \E a, b \in Range(last.out.clusters[c]) :
              /\ DictGet(last.out.alias_map, b, "") = a[3]
              /\ SelectionTuple(a)[1] > SelectionTuple(b)[1]
              /\ SelectionTuple(a)[2] < SelectionTuple(b)[2]

\* the records of the last call that went into the resolved entity of
\* record i
GroupOfRecord(i) == {j \in DOMAIN last.out.records : ResolvedOf(j) = ResolvedOf(i)}

\* the records that are the first of their group, and the place of the group
\* of record i among the groups: the place of its resolved entity
FirstOfGroups == {i \in DOMAIN last.out.records : i = MinOf(GroupOfRecord(i))}

PlaceOfGroup(i) == Cardinality({f \in FirstOfGroups : f <= MinOf(GroupOfRecord(i))})

\* the source references of an entity: its source_paper_id and the
\* source_paper_ids of its properties
SourceReferences(entity) ==
    ({entity.source_paper_id} \cup Range(PropertySourceIds(entity))) \ {""}

\* entity is the merged record of the group of record i
MergedRecordOf(entity, i) ==
    LET members == {last.out.records[j].entity : j \in GroupOfRecord(i)}
        top == MaxOf({e.confidence : e \in members})
    IN /\ entity.entity_type = last.out.records[i].entity_type
       /\ \A e \in members : e.entity_type = entity.entity_type
       /\ entity.confidence = top
       /\ \E e \in members :
             /\ e.confidence = top
             /\ entity.definition = e.definition
             /\ entity.description = e.description
       /\ Range(PropertySourceIds(entity)) = UNION {SourceReferences(e) : e \in members}
       /\ Range(Aliases(entity)) = {e.name : e \in members}
       /\ Len(Aliases(entity)) = Cardinality({e.name : e \in members})
       /\ AliasCount(entity) = Cardinality({e.name : e \in members})

\* entity records a context bucket exactly when the bucket of the group of
\* record i is not __default__, and then that bucket
BucketRecorded(entity, i) ==
    /\ DictHas(entity.properties, "resolution_context_bucket")
           <=> last.out.records[i].context_bucket # "__default__"
    /\ BucketOf(entity) = last.out.records[i].context_bucket

\* C20: after every resolution call each input entity with a canonical name
\* went into exactly one resolved entity, there being one per group; that
\* entity has the type of the group, the largest confidence of the group,
\* the definition and description of an entity of that confidence, the union
\* of the group's source references, the group's distinct raw names as
\* aliases with their number as alias_count, and a recorded context bucket
\* exactly when the bucket is not __default__
C20_MergedRecord ==
    last.op \in ResolveOps
    => /\ Len(last.out.resolved) = Cardinality(FirstOfGroups)
       /\ \A i \in DOMAIN last.out.records :
             /\ MergedRecordOf(last.out.resolved[PlaceOfGroup(i)], i)
             /\ BucketRecorded(last.out.resolved[PlaceOfGroup(i)], i)

(***************************************************************************)
(* Candidate generation: _generate_candidate_pairs on lists of distinct    *)
(* name keys, for each threshold and each max_pairs                        *)
(***************************************************************************)
\* a name 24 characters longer than "ab cd" and 18 longer than "ab cd ab cd"
LongName == "ab cd ab cd ab cd ab cd ab cd"

ConceptKey(name) == <<"Concept", "__default__", name>>

KeyPool ==
    {ConceptKey("ab cd"), ConceptKey("ab ce"), ConceptKey("ab cd ab"),
     ConceptKey("ab cd ab cd"), ConceptKey(LongName),
     <<"Method", "__default__", "ab cd">>}

\* the largest number of keys in one call, and the largest max_pairs
MaxKeys == 3

MaxPairs == 2

\* the lists of distinct keys of the pool, of at most MaxKeys keys
KeyLists == {l \in ListsUpTo(KeyPool, MaxKeys) : \A i, j \in DOMAIN l : i # j => l[i] # l[j]}

PairsThresholds == {<<0, 1>>, DefaultReview, DefaultAutoMerge}

PairsLimits == {<<>>} \cup {<<n>> : n \in 0..MaxPairs}

\* the one call self._generate_candidate_pairs(name_keys, min_similarity,
\* max_pairs) of a run
Generate(name_keys, min_similarity, max_pairs) ==
    /\ last.op = "none"
    /\ last' = [op |-> "pairs", name_keys |-> name_keys,
                min_similarity |-> min_similarity, max_pairs |-> max_pairs,
                pairs |-> GenerateCandidatePairs(name_keys, min_similarity, max_pairs)]
    /\ UNCHANGED <<learned, synonyms, rules, config, tasks>>

PairsInit == EngineInit({NoJudge})

PairsNext ==
    \E name_keys \in KeyLists, min_similarity \in PairsThresholds, max_pairs \in PairsLimits :
        Generate(name_keys, min_similarity, max_pairs)

SpecPairs == PairsInit /\ [][PairsNext]_vars

\* the lengths of two names differ by at most 20
LengthsClose(left, right) ==
    Len(left[3]) - Len(right[3]) <= 20 /\ Len(right[3]) - Len(left[3]) <= 20

\* the score of two keys: that of their names, the lesser name on the left
ScoreOfKeys(a, b) ==
    IF StrLess(a[3], b[3]) THEN SimilarityScore(a[3], b[3])
    ELSE SimilarityScore(b[3], a[3])

\* C21: the list _generate_candidate_pairs returns holds each unordered pair
\* of distinct keys at most once; every pair in it scores at least
\* min_similarity and joins names whose lengths differ by at most 20; the
\* scores do not increase along the list; and with max_pairs given the list
\* has at most max_pairs entries and no qualifying pair left out scores
\* strictly higher than a pair in the list
C21_CandidateList ==
    last.op = "pairs"
    => /\ \A i \in DOMAIN last.pairs :
             /\ last.pairs[i][1] # last.pairs[i][2]
             /\ last.pairs[i][1] \in Range(last.name_keys)
             /\ last.pairs[i][2] \in Range(last.name_keys)
             /\ last.pairs[i][3] = ScoreOfKeys(last.pairs[i][1], last.pairs[i][2])
             /\ FracGeq(last.pairs[i][3], last.min_similarity)
             /\ LengthsClose(last.pairs[i][1], last.pairs[i][2])
             /\ \A j \in DOMAIN last.pairs :
                   /\ i < j => ~FracLess(last.pairs[i][3], last.pairs[j][3])
                   /\ i # j => {last.pairs[i][1], last.pairs[i][2]}
                                   # {last.pairs[j][1], last.pairs[j][2]}
       /\ last.max_pairs # <<>>
          => /\ Len(last.pairs) <= last.max_pairs[1]
             /\ \A a, b \in Range(last.name_keys) :
                   (/\ a # b
                    /\ SameBlock(a, b)
                    /\ LengthsClose(a, b)
                    /\ FracGeq(ScoreOfKeys(a, b), last.min_similarity)
                    /\ \A i \in DOMAIN last.pairs :
                          {a, b} # {last.pairs[i][1], last.pairs[i][2]})
                   => \A i \in DOMAIN last.pairs :
                         ~FracLess(last.pairs[i][3], ScoreOfKeys(a, b))

\* a call whose keys include two names more than 20 characters apart in one
\* block, and whose list was cut by max_pairs
C21_Witness ==
    /\ last.op = "pairs"
    /\ last.max_pairs # <<>>
    /\ last.pairs # <<>>
    /\ Len(last.pairs) < Len(GenerateCandidatePairs(last.name_keys, last.min_similarity, <<>>))
    /\ \E a, b \in Range(last.name_keys) : SameBlock(a, b) /\ ~LengthsClose(a, b)

(***************************************************************************)
(* Buckets: a new engine, names it may canonicalize, then one resolution   *)
(* call on entities whose context lies in different fields                 *)
(***************************************************************************)
Described(name, definition, description) ==
    ExtractedEntity("Concept", name, definition, description, 50, "", <<>>)

WithProperties(name, properties) ==
    ExtractedEntity("Concept", name, "", "", 50, "", properties)

BucketPool ==
    {Described("SAT", "boolean satisfiability solver", ""),
     Described("SAT", "", "Student Aptitude exam"),
     Described("SAT", "solver exam", ""),
     Described("SAT", "boolean exam", "for each student"),
     Described("SAT", "test", "score"),
     Described("SAT", "", ""),
     WithProperties("SAT", << <<"venue", PStr("college")>>, <<"year", PInt(2020)>> >>),
     WithProperties("SAT", << <<"tags", PList(<<"token", "cnf", "transformer">>)>> >>),
     Described("Transformer", "winding and coil with an encoder", ""),
     Described("Transformer", "concurrent tokens", ""),
     Described("Graph", "boolean solver", ""),
     Described("Satisfiability (SAT)", "boolean", "")}

\* every list of one or two entities of the pool
BucketInputs ==
    {<<a>> : a \in BucketPool} \cup {<<a, b>> : a \in BucketPool, b \in BucketPool}

BucketsInit == EngineInit({NoJudge})

BucketsNext ==
    \/ \E name \in {"Satisfiability (SAT)", "SAT"} : Warm /\ Canonicalize(name)
    \/ \E entities \in BucketInputs : Warm /\ Resolve(entities, FALSE)

SpecBuckets == BucketsInit /\ [][BucketsNext]_vars

\* the number of keywords that occur in text
KeywordCount(keywords, text) ==
    Cardinality({k \in DOMAIN keywords : Contains(text, keywords[k])})

\* bucket is one of the rule buckets with the most keywords in text, and has
\* at least one; or no rule bucket has any and bucket is generic
BucketIsBest(buckets, text, bucket) ==
    IF \A b \in DOMAIN buckets : KeywordCount(buckets[b][2], text) = 0
    THEN bucket = "generic"
    ELSE \E b \in DOMAIN buckets :
            /\ buckets[b][1] = bucket
            /\ KeywordCount(buckets[b][2], text) > 0
            /\ \A c \in DOMAIN buckets :
                  KeywordCount(buckets[c][2], text) <= KeywordCount(buckets[b][2], text)

\* C22: every record of a call whose canonical name has an ambiguity rule is
\* in a bucket of that rule with the largest number of keywords occurring in
\* the entity's context text, that number being positive, or in generic when
\* no keyword of the rule occurs; every record whose canonical name has no
\* rule is in __default__
C22_BucketAssignment ==
    last.op \in ResolveOps
    => \A i \in DOMAIN last.out.records :
          IF DictHas(rules, last.out.records[i].canonical_name)
          THEN BucketIsBest(DictGet(rules, last.out.records[i].canonical_name, <<>>),
                            BuildContextText(last.out.records[i].entity),
                            last.out.records[i].context_bucket)
          ELSE last.out.records[i].context_bucket = "__default__"

\* a call with a record whose bucket is not the first of its rule with a
\* keyword in the text, and a record without a rule
C22_Witness ==
    /\ last.op \in ResolveOps
    /\ \E i \in DOMAIN last.out.records :
          /\ last.out.records[i].canonical_name = "sat"
          /\ last.out.records[i].context_bucket = "education"
          /\ Contains(BuildContextText(last.out.records[i].entity), "boolean")
    /\ \E i \in DOMAIN last.out.records :
          ~DictHas(rules, last.out.records[i].canonical_name)

(***************************************************************************)
(* Acronym learning: a new engine and a sequence of canonicalize_name      *)
(* calls on names with and without the shape "Long Form (ACR)"             *)
(***************************************************************************)
Shaped(long, acr) == [long |-> long, acr |-> acr]

\* the name "Long Form (ACR)" of a long form and an acronym
NameOfShape(p) == p.long \o " (" \o p.acr \o ")"

\* long forms with an acronym of a letter and one to fifteen more letters,
\* digits, periods or hyphens
ShapedPool ==
    {Shaped("Graph Convolutional Network", "GCN"),
     Shaped("Gated Convolutional Network", "G.C.N."),
     Shaped("Graph Convolutional Network", "G-C-N"),
     Shaped("Satisfiability", "SAT"),
     Shaped("Self-Attention", "SA"),
     Shaped("Graph Network", "GCN"),
     Shaped("Satisfiability", "STF"),
     Shaped("Boolean Satisfiability", "SAT")}

\* names of another shape
UnshapedNames ==
    {"GCN", "Graph Convolutional Network", "(GCN)", "Graph (GCN) Network",
     "Graph Convolutional Network (GCN) ,", "Apple (A)", "Graph Convolutional Network (3CN)",
     "sat"}

LearnNames == {NameOfShape(p) : p \in ShapedPool} \cup UnshapedNames

LearnInit == EngineInit({NoJudge})

LearnNext == \E name \in LearnNames : Canonicalize(name)

SpecLearn == LearnInit /\ [][LearnNext]_vars

\* the first characters of the tokens, in order
InitialsOf(tokens) == Gather(LAMBDA k : At(tokens[k], 1), 1, Len(tokens))

\* the acronym is the initials of the tokens of the long form, or the long
\* form is one token that begins with the acronym, of two characters or more
AbbreviatedBy(long_form, acronym_key) ==
    \/ NormalizeAcronymKey(InitialsOf(Words(long_form))) = acronym_key
    \/ /\ Len(Words(long_form)) = 1
       /\ Len(acronym_key) >= 2
       /\ SubSeq(NormalizeAcronymKey(long_form), 1, Len(acronym_key)) = acronym_key

\* the map is before with long_form under acronym and under its key
LearntUnderBoth(before, after, long_form, acronym) ==
    /\ DOMAIN after = DOMAIN before \cup {acronym, NormalizeAcronymKey(acronym)}
    /\ after[acronym] = long_form
    /\ after[NormalizeAcronymKey(acronym)] = long_form
    /\ \A k \in DOMAIN before \ {acronym, NormalizeAcronymKey(acronym)} : after[k] = before[k]

\* C23: canonicalize_name on a name "Long Form (ACR)" whose acronym is the
\* initials of the tokens of the normalized long form, or a beginning of two
\* characters or more of a long form of one token, leaves the map with the
\* normalized long form under the normalized acronym and under its
\* alphanumeric key, and otherwise as it was; on a name of that shape whose
\* acronym is neither, and on a name of another shape, it leaves the map as
\* it was
C23_ValidatedLearning ==
    last.op = "canonicalize"
    => /\ \A p \in ShapedPool :
             last.name = NameOfShape(p)
             => IF AbbreviatedBy(NormalizeSurface(p.long), NormalizeAcronymKey(p.acr))
                THEN LearntUnderBoth(last.before, learned, NormalizeSurface(p.long),
                                     NormalizeSurface(p.acr))
                ELSE learned = last.before
       /\ last.name \in UnshapedNames => learned = last.before

\* a name whose acronym is not an abbreviation of its long form was
\* processed by an engine that had learned the same acronym under two keys
C23_Witness ==
    /\ last.op = "canonicalize"
    /\ last.name = "Graph Network (GCN)"
    /\ "g c n" \in DOMAIN learned
    /\ "gcn" \in DOMAIN learned
    /\ "sat" \in DOMAIN learned

(***************************************************************************)
(* Order of the batches and of the unions                                  *)
(***************************************************************************)
\* the sequences that hold every element of S exactly once
Orders(S) ==
    {Tuple(f) : f \in {g \in [1..Cardinality(S) -> S] :
                          \A i, j \in 1..Cardinality(S) : i # j => g[i] # g[j]}}

RECURSIVE ConfirmedInOrder(_, _)
\* the confirmed set of the last call had its batches been answered, each
\* as it was, in the given order
ConfirmedInOrder(order, confirmed) ==
    IF order = <<>> THEN confirmed
    ELSE ConfirmedInOrder(Tail(order),
             confirmed \cup BatchAttempt(last.out.uncertain_pairs,
                                         last.asked[Head(order)].batch_start,
                                         config.llm_batch_size,
                                         last.asked[Head(order)].reply).value)

\* _build_alias_map and _resolve_with_alias_map of the last call with the
\* accepted pairs united in the given order
ResultInOrder(order, name_stats) ==
    [clusters |-> ClustersOf(last.out.name_keys,
                             UnionAll([k \in Range(last.out.name_keys) |-> k], order, 1)),
     resolved |-> ResolveWithAliasMap(last.out.records,
                      AliasMapOf(ClustersOf(last.out.name_keys,
                                     UnionAll([k \in Range(last.out.name_keys) |-> k],
                                              order, 1)),
                                 name_stats).alias_map)]

\* the canonical name of each cluster, as the resolved entities carry it
CanonicalOfClusters(result) ==
    {<<Range(result.clusters[c]), SelectClusterCanonical(result.clusters[c],
                                      BuildNameStats(last.out.records))>> :
        c \in DOMAIN result.clusters}

\* C24: for the entities and the judge answers of a resolve_entities_async
\* call, whatever the order in which the batches are answered the confirmed
\* set is the one the call computed, and whatever the order in which the
\* accepted pairs are united the clusters, the canonical name of each
\* cluster and the resolved entities are the ones the call returned
C24_OrderIndependent ==
    (last.op = "resolve_async" /\ ~last.raised)
    => /\ \A order \in Orders(DOMAIN last.asked) :
             ConfirmedInOrder(order, {}) = last.out.confirmed_pairs
       /\ \A name_stats \in {BuildNameStats(last.out.records)} :
             \A order \in Orders(AcceptedPairs(last.out.name_keys, last.out.confirmed_pairs,
                                               config.auto_merge_threshold)) :
                \A result \in {ResultInOrder(order, name_stats)} :
                   /\ result.clusters = last.out.clusters
                   /\ CanonicalOfClusters(result) = CanonicalOfClusters(last.out)
                   /\ result.resolved = last.out.resolved

\* a call that asked two batches, had pairs of both confirmed, and put three
\* keys in one cluster by two accepted pairs that share a key
C24_Witness ==
    /\ last.op = "resolve_async"
    /\ Len(last.asked) = 2
    /\ \A k \in DOMAIN last.asked :
          PairsOfBatch(last.asked[k].batch_start) \cap last.out.confirmed_pairs # {}
    /\ \E c \in DOMAIN last.out.clusters : Len(last.out.clusters[c]) >= 3
    /\ Len(last.out.clusters) >= 2

(***************************************************************************)
(* Input order: a new engine, names it may canonicalize, then one          *)
(* resolve_entities call on a list in which acronyms are taught and used   *)
(***************************************************************************)
TeachCd == Concept("Ab Cd (AC)", "", 80, "r1")

Ac == Concept("AC", "", 70, "r2")

TeachCe == Concept("Ab Ce (AC)", "", 60, "r3")

\* the acronym again, from another paper and with another confidence
AcAgain == Concept("AC", "", 65, "r4")

OrderPool == {TeachCd, Ac, AcAgain, TeachCe, AbCd}

\* the lists over the pool, and one whose keys two accepted pairs chain
OrderInputs ==
    ListsUpTo(OrderPool, MaxLen + 1) \cup {<<AbCd, AbCdAb, AbCdAbCd>>, <<Ac, AbCdAbCd, AbCd, AbCdAb>>}

OrderInit == EngineInit({NoJudge})

OrderNext ==
    \/ \E e \in OrderPool : Warm /\ Canonicalize(e.name)
    \/ \E entities \in OrderInputs, reversed \in BOOLEAN : Warm /\ Resolve(entities, reversed)

SpecOrder == OrderInit /\ [][OrderNext]_vars

RECURSIVE LearnedInOrder(_, _)
\* the learned-acronym map after canonicalize_name on each name in turn
LearnedInOrder(acronyms, names) ==
    IF names = <<>> THEN acronyms
    ELSE LearnedInOrder(CanonicalizeName(acronyms, synonyms, Head(names)).acronyms,
                        Tail(names))

\* the names of the entities, in order
NamesOf(entities) == Tuple([i \in DOMAIN entities |-> entities[i].name])

\* C25: in a resolve_entities call whose entities all get a canonical name,
\* the canonical name of the entity at position i is the one
\* canonicalize_name gives its name on the map left by the names before it,
\* taken in input order from the map at the start of the call, so a call on
\* the first i entities gives it the same; the map after the call is the one
\* left by the names in input order; and whatever the iteration order of the
\* set of accepted pairs, a call from the same map on the same list returns
\* the same entities in the same order and the same stats, and leaves the
\* same map
C25_InputOrderDeterminism ==
    (last.op = "resolve" /\ Len(last.out.records) = Len(last.out.entities))
    => /\ \A i \in DOMAIN last.out.entities :
             /\ last.out.records[i].canonical_name
                   = CanonicalizeName(LearnedInOrder(last.before,
                                          NamesOf(SubSeq(last.out.entities, 1, i - 1))),
                                      synonyms, last.out.entities[i].name).canonical
             /\ last.out.records[i].canonical_name
                   = BuildRecords(last.before, synonyms, rules,
                                  SubSeq(last.out.entities, 1, i)).records[i].canonical_name
       /\ learned = LearnedInOrder(last.before, NamesOf(last.out.entities))
       /\ \A reversed \in BOOLEAN :
             \A again \in {ResolveEntities(last.before, synonyms, rules, config,
                                            last.out.entities, reversed)} :
                /\ again.out.resolved = last.out.resolved
                /\ again.out.stats = last.out.stats
                /\ again.acronyms = learned

\* a call on an engine that had learned a long form of AC, in which the
\* acronym stands before and after a name that teaches it another long form
C25_Witness ==
    /\ last.op = "resolve"
    /\ last.before # <<>>
    /\ Len(last.out.entities) = 3
    /\ last.out.entities[1] = Ac
    /\ last.out.entities[3] = Ac
    /\ last.out.records[1].canonical_name # last.out.records[3].canonical_name
    /\ learned # last.before

(***************************************************************************)
(* Homonyms on an engine that has learned acronyms                         *)
(***************************************************************************)
\* the context text of the entity has more keywords of the bucket of the
\* rule of SAT than of any other bucket of that rule
PointsTo(entity, bucket) ==
    \A b \in DOMAIN DictGet(rules, "sat", <<>>) :
        IF DictGet(rules, "sat", <<>>)[b][1] = bucket
        THEN KeywordCount(DictGet(rules, "sat", <<>>)[b][2], BuildContextText(entity)) > 0
        ELSE \E c \in DOMAIN DictGet(rules, "sat", <<>>) :
                /\ DictGet(rules, "sat", <<>>)[c][1] = bucket
                /\ KeywordCount(DictGet(rules, "sat", <<>>)[b][2], BuildContextText(entity))
                      < KeywordCount(DictGet(rules, "sat", <<>>)[c][2], BuildContextText(entity))

\* two entities of one type named SAT, one pointing to logic and one to
\* education
SatPair(entities) ==
    /\ Len(entities) = 2
    /\ entities[1].name = "sat" /\ entities[2].name = "sat"
    /\ entities[1].entity_type = entities[2].entity_type
    /\ \E i, j \in {1, 2} :
          i # j /\ PointsTo(entities[i], "logic") /\ PointsTo(entities[j], "education")

\* C26: whatever the engine has learned before the call, resolving two
\* entities of one type that are both named SAT, one whose context points to
\* logic and one whose context points to education, puts them in different
\* context buckets and returns two entities
C26_HomonymSurvivesLearning ==
    (last.op \in ResolveOps /\ SatPair(last.out.entities))
    => /\ Len(last.out.records) = 2
       /\ last.out.records[1].context_bucket # last.out.records[2].context_bucket
       /\ Len(last.out.resolved) = 2

(***************************************************************************)
(* Keys of equal entities within one call                                  *)
(***************************************************************************)
\* the entities at i and j of the last call have the same type, the same
\* raw name and the same context text
EqualMentions(i, j) ==
    /\ last.out.entities[i].entity_type = last.out.entities[j].entity_type
    /\ last.out.entities[i].name = last.out.entities[j].name
    /\ BuildContextText(last.out.entities[i]) = BuildContextText(last.out.entities[j])

\* the records at i and j have one NameKey and go into one resolved entity
SameKeyAndEntity(i, j) ==
    /\ KeyOf(last.out.records[i]) = KeyOf(last.out.records[j])
    /\ MergedKey(last.out.records[i], last.out.alias_map)
          = MergedKey(last.out.records[j], last.out.alias_map)

\* processing the entity at k changed the learned-acronym map
Teaches(k) ==
    LearnedInOrder(last.before, NamesOf(SubSeq(last.out.entities, 1, k)))
        # LearnedInOrder(last.before, NamesOf(SubSeq(last.out.entities, 1, k - 1)))

WithoutJudge ==
    ResolveEntities(last.before, synonyms, rules, config, last.out.entities, FALSE).out

\* every cluster of fine lies within one cluster of coarse
Coarsens(coarse, fine) ==
    \A c \in DOMAIN fine :
        \E d \in DOMAIN coarse : Range(fine[c]) \subseteq Range(coarse[d])

\* C28: whatever the judge answered, the clusters of a
\* resolve_entities_async call are unions of the clusters resolve_entities
\* forms on the same entities from the same learned-acronym map, so every
\* two NameKeys merged without the judge are merged with it, and the call
\* returns at most as many entities as resolve_entities does
C28_ConfirmationsCoarsen ==
    (last.op = "resolve_async" /\ ~last.raised)
    => \A plain \in {WithoutJudge} :
          /\ Range(plain.name_keys) = Range(last.out.name_keys)
          /\ Coarsens(last.out.clusters, plain.clusters)
          /\ Len(last.out.resolved) <= Len(plain.resolved)
          /\ last.out.stats.resolved_entities <= plain.stats.resolved_entities

\* a call in which the judge confirmed a pair, that has a cluster formed
\* without the judge and returns fewer entities than resolve_entities would
C28_Witness ==
    /\ last.op = "resolve_async"
    /\ last.out.confirmed_pairs # {}
    /\ \E c \in DOMAIN WithoutJudge.clusters : Len(WithoutJudge.clusters[c]) >= 2
    /\ Len(last.out.resolved) < Len(WithoutJudge.resolved)
    /\ Len(last.out.clusters) >= 2

(***************************************************************************)
(* Concurrent calls: two resolve_entities_async calls on one engine, the   *)
(* second begun while the first is suspended at the judge, the judge       *)
(* answering their batches in any interleaving                             *)
(***************************************************************************)
ConcurrentInputs ==
    {<<Ac, AbCd, AbCe>>, <<TeachCd, AbCe, AbCf>>, <<TeachCe, Ac, AbCd, AbCf>>}

ConcurrentReplies ==
    {JudgeResponse("raise", {}, {}), JudgeResponse("decisions", {1}, {}),
     JudgeResponse("decisions", {1, 2, 3}, {})}

\* no resolution call has returned yet
NoneReturned == last.op \in {"none", "canonicalize"}

ConcurrentInit == EngineInit({SmallBatches})

ConcurrentNext ==
    \/ Warm /\ Canonicalize(TeachCe.name)
    \/ \E entities \in ConcurrentInputs :
          NoneReturned /\ AsyncBegin(1, entities, TRUE, FALSE)
    \/ \E entities \in ConcurrentInputs :
          NoneReturned /\ tasks[1].pc = "await" /\ AsyncBegin(2, entities, TRUE, FALSE)
    \/ \E slot \in Slots, reply \in ConcurrentReplies : JudgeReply(slot, reply)

SpecConcurrent == ConcurrentInit /\ [][ConcurrentNext]_vars

\* the confirmed pairs of a call whose batches the judge answered as asked
SoloConfirmed(uncertain_pairs, asked) ==
    UNION {BatchAttempt(uncertain_pairs, asked[k].batch_start, config.llm_batch_size,
                        asked[k].reply).value : k \in DOMAIN asked}

\* a call alone on the engine, from its name stats on
SoloNamed(entities, use, records, name_stats, asked) ==
    Outcome(config, entities, records, name_stats,
            UncertainPairs(config, NameKeys(name_stats), use),
            SoloConfirmed(UncertainPairs(config, NameKeys(name_stats), use), asked),
            FALSE, TRUE)

\* resolve_entities_async(entities, use) alone on an engine whose
\* learned-acronym map is before, the judge answering its batches as asked
SoloCall(before, entities, use, asked) ==
    SoloNamed(entities, use, BuildRecords(before, synonyms, rules, entities).records,
              BuildNameStats(BuildRecords(before, synonyms, rules, entities).records),
              asked)

\* the calls begun so far: the map each started from and its entities
Begun ==
    {[before |-> tasks[s].before, entities |-> tasks[s].entities] :
        s \in {r \in Slots : tasks[r].pc = "await"}}
    \cup (IF last.op = "resolve_async"
          THEN {[before |-> last.before, entities |-> last.out.entities]}
          ELSE {})

\* the learned-acronym map after the call alone
LearnedAfter(call) == LearnedInOrder(call.before, NamesOf(call.entities))

\* the calls begun stand in a row, each starting from the map the one before
\* it leaves when run alone, and the engine holds the map the last one leaves
SerialOrder(calls) ==
    \E order \in Orders(calls) :
        /\ \A k \in 1..(Len(order) - 1) : order[k + 1].before = LearnedAfter(order[k])
        /\ learned = LearnedAfter(order[Len(order)])

\* every call that has returned so far returned what it returns alone, every
\* suspended call holds the records it built, and while a call is in flight
\* the calls begun stand in a serial order
SerialSoFar ==
    /\ (last.op = "resolve_async" /\ ~last.raised)
       => \A solo \in {SoloCall(last.before, last.out.entities, last.use, last.asked)} :
             /\ last.out.resolved = solo.resolved
             /\ last.out.stats = solo.stats
             /\ last.out.name_keys = solo.name_keys
             /\ last.out.clusters = solo.clusters
             /\ Tuple([k \in DOMAIN last.asked |-> last.asked[k].batch_start])
                   = BatchStarts(Len(solo.uncertain_pairs), config.llm_batch_size)
    /\ \A s \in Slots :
          tasks[s].pc = "await"
          => tasks[s].records
               = BuildRecords(tasks[s].before, synonyms, rules, tasks[s].entities).records
    /\ ~AllIdle => SerialOrder(Begun)

\* C29: with two resolve_entities_async calls interleaved on one engine,
\* each suspended only while it awaits a judge batch, every call returns the
\* entities and stats it returns when run alone from the map it started
\* from with the same judge answers, whatever the other call learned
\* meanwhile; a suspended call keeps the records it built; the calls stand
\* in a serial order in which each starts from the map the one before it
\* leaves, the last leaving the map the engine holds; and the return of the
\* last call in flight leaves that map as it is
C29_Serializable ==
    /\ []SerialSoFar
    /\ [][(~AllIdle /\ AllIdle') => learned' = learned]_vars

\* the first call returned after the second, begun while the first was
\* suspended, had taught an acronym that the first call's names would now
\* be folded by
C29_Witness ==
    /\ last.op = "resolve_async"
    /\ last.asked # <<>>
    /\ last.out.confirmed_pairs # {}
    /\ learned # LearnedInOrder(last.before, NamesOf(last.out.entities))
    /\ BuildRecords(learned, synonyms, rules, last.out.entities).records # last.out.records
    /\ tasks[2].pc = "await"

(***************************************************************************)
(* Canonical names canonicalized again: a new engine, canonicalize_name on *)
(* raw names, and canonicalize_name on the name the last call returned     *)
(***************************************************************************)
\* names that teach an acronym, among them three whose long form is the
\* acronym of the next, acronyms alone, and aliases of the synonym table
FixpointNames ==
    {"Abc (AB)", "Abcd (ABC)", "Abcde (ABCD)", "AB", "ABC",
     "Neural Networks (NN)", "NN", "neural net", "Machine Learning (ML)", "ML",
     "Graph Convolutional Network (GCN)", "G.C.N."}

\* canonicalize_name(name), name being what the last canonicalize_name
\* returned
CanonicalizeAgain ==
    /\ last.op = "canonicalize"
    /\ \A c \in {CanonicalizeName(learned, synonyms, last.canonical)} :
          /\ learned' = c.acronyms
          /\ last' = [op |-> "canonicalize_again", before |-> learned,
                      name |-> last.canonical, canonical |-> c.canonical]
    /\ UNCHANGED <<synonyms, rules, config, tasks>>

FixpointInit == EngineInit({NoJudge})

FixpointNext ==
    \/ \E name \in FixpointNames : Canonicalize(name)
    \/ CanonicalizeAgain

SpecFixpoint == FixpointInit /\ [][FixpointNext]_vars

\* C30: canonicalize_name on a name that canonicalize_name returned, on the
\* engine as that call left it, returns the name it was given and leaves the
\* learned map as it was
C30_Fixpoint ==
    last.op = "canonicalize_again"
    => /\ last.canonical = last.name
       /\ learned = last.before

====
